---- MODULE Spec2Model ----
(***************************************************************************)
(* State-machine model of the configurable noise modules of libnoise      *)
(* (src/src/module): one module is constructed (kind) and its setters and *)
(* get_value are then called in any order.                                 *)
(*                                                                         *)
(* f64 values are modelled as exact rationals [n, d] in lowest terms with  *)
(* d > 0, extended with the IEEE specials +inf = [1,0], -inf = [-1,0] and  *)
(* NaN = [0,0].  A value also carries the rounding error en/ed it has       *)
(* accumulated, in units of 2^-53: the f64 is n/d + (en/ed) * 2^-53.       *)
(* Rounding is modelled where the code accumulates a sum step by step      *)
(* (make_control_points: f64_div, f64_add); elsewhere arithmetic is exact   *)
(* on n/d and its result carries no error.  The sign of zero is not        *)
(* modelled.                                                               *)
(* A panic is modelled as a call that returns with status "panic" after    *)
(* the assignments the code made before the panic! line.                   *)
(***************************************************************************)
EXTENDS Integers, Sequences, FiniteSets, TLC

VARIABLES kind, debug_assertions, keep_history, noise, curve, terrace, select,
          clampmod, displace, perlin, billow, ridged, rotate, turb, cylinders,
          spheres, invertmod, voronoi, last, memo

vars == <<kind, debug_assertions, keep_history, noise, curve, terrace, select,
          clampmod, displace, perlin, billow, ridged, rotate, turb, cylinders,
          spheres, invertmod, voronoi, last, memo>>

\* what the program was built as (noise: the noise primitives it is linked
\* with), and what the model observes of it
Build == <<kind, debug_assertions, keep_history, noise>>

\* the modules without a source module of their own kind in the model
Shapes == <<cylinders, spheres, invertmod, voronoi>>

\* the parameters and derived state of every module
Config == <<curve, terrace, select, clampmod, displace, perlin, billow, ridged, rotate, turb,
            Shapes>>

\* what a call on one module leaves alone: the other modules.  For the
\* modules whose get_value is modelled the remembered evaluation (memo) is
\* not part of it: their setters forget it.
NotCurve == <<Build, Shapes, terrace, select, clampmod, displace, perlin, billow, ridged, rotate, turb>>
NotTerrace == <<Build, Shapes, curve, select, clampmod, displace, perlin, billow, ridged, rotate, turb>>
NotSelect == <<Build, Shapes, curve, terrace, clampmod, displace, perlin, billow, ridged, rotate, turb>>
NotClamp == <<Build, Shapes, curve, terrace, select, displace, perlin, billow, ridged, rotate, turb>>
NotDisplace == <<Build, Shapes, curve, terrace, select, clampmod, perlin, billow, ridged, rotate, turb>>
NotPerlin == <<Build, Shapes, memo, curve, terrace, select, clampmod, displace, billow, ridged, rotate, turb>>
NotBillow == <<Build, Shapes, memo, curve, terrace, select, clampmod, displace, perlin, ridged, rotate, turb>>
NotRidged == <<Build, Shapes, memo, curve, terrace, select, clampmod, displace, perlin, billow, rotate, turb>>
NotRotate == <<Build, Shapes, memo, curve, terrace, select, clampmod, displace, perlin, billow, ridged, turb>>
NotTurb == <<Build, Shapes, memo, curve, terrace, select, clampmod, displace, perlin, billow, ridged, rotate>>

\* the modules that existed before the shapes
Composed == <<curve, terrace, select, clampmod, displace, perlin, billow, ridged, rotate, turb>>

NotCylinders == <<Build, memo, Composed, spheres, invertmod, voronoi>>
NotSpheres == <<Build, memo, Composed, cylinders, invertmod, voronoi>>
NotInvert == <<Build, memo, Composed, cylinders, spheres, voronoi>>
NotVoronoi == <<Build, memo, Composed, cylinders, spheres, invertmod>>

(***************************************************************************)
(* Bounds of the model                                                     *)
(***************************************************************************)
MaxPoints == 4      \* control points a Curve holds at most
MaxTerracePoints == 5   \* control points a Terrace holds at most
MaxVal == 1         \* largest integer used as a control-point value
MaxCount == 4       \* largest count given to make_control_points
MaxBound == 1       \* largest integer used as a Select bound
MaxTurn == 2        \* largest angle in quarter turns
MaxCoord == 1       \* largest integer used as a coordinate
MaxOctaves == 2     \* largest octave count set before an evaluation
MaxRing == 1        \* largest integer used as a coordinate of a ring pattern

(***************************************************************************)
(* f64                                                                     *)
(***************************************************************************)
Abs(i) == IF i < 0 THEN -i ELSE i

Sgn(i) == IF i < 0 THEN -1 ELSE IF i > 0 THEN 1 ELSE 0

RECURSIVE GCD(_, _)
GCD(a, b) == IF b = 0 THEN a ELSE GCD(b, a % b)

\* the rational n/d (d # 0) in lowest terms
R(n, d) ==
    LET g == GCD(Abs(n), Abs(d))
    IN  [n |-> (Sgn(d) * n) \div g, d |-> Abs(d) \div g, en |-> 0, ed |-> 1]

NaN == [n |-> 0, d |-> 0, en |-> 0, ed |-> 1]
PInf == [n |-> 1, d |-> 0, en |-> 0, ed |-> 1]
NInf == [n |-> -1, d |-> 0, en |-> 0, ed |-> 1]
Zero == R(0, 1)
One == R(1, 1)
Two == R(2, 1)

is_nan(a) == a.d = 0 /\ a.n = 0
IsInf(a) == a.d = 0 /\ a.n # 0
IsFinite(a) == a.d > 0

FNeg(a) == [n |-> -a.n, d |-> a.d, en |-> -a.en, ed |-> a.ed]

FAdd(a, b) ==
    IF is_nan(a) \/ is_nan(b) THEN NaN
    ELSE IF IsInf(a) /\ IsInf(b) THEN (IF a.n = b.n THEN a ELSE NaN)
    ELSE IF IsInf(a) THEN a
    ELSE IF IsInf(b) THEN b
    ELSE R(a.n * b.d + b.n * a.d, a.d * b.d)

FSub(a, b) == FAdd(a, FNeg(b))

FAbs(a) == IF a.n < 0 THEN FNeg(a) ELSE a

FMul(a, b) ==
    IF is_nan(a) \/ is_nan(b) THEN NaN
    ELSE IF IsInf(a) \/ IsInf(b)
         THEN (IF a.n = 0 \/ b.n = 0 THEN NaN
               ELSE IF Sgn(a.n) = Sgn(b.n) THEN PInf ELSE NInf)
    ELSE R(a.n * b.n, a.d * b.d)

FDiv(a, b) ==
    IF is_nan(a) \/ is_nan(b) THEN NaN
    ELSE IF IsInf(a) /\ IsInf(b) THEN NaN
    ELSE IF IsInf(b) THEN Zero
    ELSE IF IsInf(a) THEN (IF Sgn(a.n) * Sgn(b.n) < 0 THEN NInf ELSE PInf)
    ELSE IF b.n = 0 THEN (IF a.n = 0 THEN NaN
                          ELSE IF a.n > 0 THEN PInf ELSE NInf)
    ELSE R(a.n * b.d, a.d * b.n)

\* a < b, a <= b, a == b as f64 compares: any comparison with NaN is false
FLt(a, b) ==
    /\ ~is_nan(a)
    /\ ~is_nan(b)
    /\ IF IsInf(a) /\ IsInf(b) THEN a.n < b.n
       ELSE \/ a.n * b.d < b.n * a.d
            \/ a.n * b.d = b.n * a.d /\ a.en * b.ed < b.en * a.ed

FEq(a, b) == ~is_nan(a) /\ ~is_nan(b) /\ a = b

FLe(a, b) == FLt(a, b) \/ FEq(a, b)

FGt(a, b) == FLt(b, a)

\* f64::partial_cmp: None when either side is NaN
partial_cmp(a, b) ==
    IF is_nan(a) \/ is_nan(b) THEN "None"
    ELSE IF FLt(a, b) THEN "Less"
    ELSE IF FLt(b, a) THEN "Greater"
    ELSE "Equal"

(***************************************************************************)
(* f64 rounding to nearest, ties to even                                   *)
(***************************************************************************)
MANTISSA_DIGITS == 53

\* the value without its rounding error, and the error as a value
Ideal(a) == [a EXCEPT !.en = 0, !.ed = 1]

Err(a) == R(a.en, a.ed)

WithErr(q, r) == [q EXCEPT !.en = r.n, !.ed = r.d]

Pow2(e) == IF e >= 0 THEN R(2 ^ e, 1) ELSE R(1, 2 ^ (-e))

Sq(i) == i * i

\* 2^k mod m, by repeated squaring
RECURSIVE Pow2Mod(_, _)
Pow2Mod(k, m) ==
    IF k = 0 THEN 1 % m
    ELSE ((IF k % 2 = 0 THEN 1 ELSE 2) * Sq(Pow2Mod(k \div 2, m))) % m

\* floor(log2(q)) of a rational q > 0
RECURSIVE Log2Floor(_)
Log2Floor(q) ==
    IF q.n >= 2 * q.d THEN Log2Floor(R(q.n, 2 * q.d)) + 1
    ELSE IF q.n < q.d THEN Log2Floor(R(2 * q.n, q.d)) - 1
    ELSE 0

\* the f64 nearest to x = q + r * 2^-53 for a rational q > 0 and a small
\* rational r: x is N * ulp for the integer N nearest to x / ulp, and
\* x / ulp = q * 2^(52-e) + r / t with ulp = 2^(e-52), t = ulp / 2^-53.  Only
\* the fraction of q * 2^(52-e) and its parity are computed, modulo q.d.
RoundPos(q, r) ==
    LET e0 == Log2Floor(q)
        e == IF q = Pow2(e0) /\ r.n < 0 THEN e0 - 1 ELSE e0
        k == (MANTISSA_DIGITS - 1) - e
        t == Pow2(MANTISSA_DIGITS - k)
        m2 == ((q.n % (2 * q.d)) * Pow2Mod(k, 2 * q.d)) % (2 * q.d)
        m == m2 % q.d
        parity == (m2 - m) \div q.d
        fraction == R(m, q.d)
        g == FAdd(fraction, FDiv(r, t))
        floor == g.n \div g.d
        h == FSub(g, R(floor, 1))
        up == IF FLt(h, R(1, 2)) THEN 0
              ELSE IF FGt(h, R(1, 2)) THEN 1
              ELSE (parity + floor) % 2
    IN  WithErr(q, FMul(FSub(R(floor + up, 1), fraction), t))

\* the f64 nearest to q + r * 2^-53; a difference that cancels to r * 2^-53
\* is exact
RoundF64(q, r) ==
    IF q.n = 0 THEN WithErr(q, r)
    ELSE IF q.n < 0 THEN FNeg(RoundPos(FNeg(q), FNeg(r)))
    ELSE RoundPos(q, r)

\* a + b and a / b as f64 computes them, rounded
f64_add(a, b) ==
    IF IsFinite(a) /\ IsFinite(b)
    THEN RoundF64(FAdd(Ideal(a), Ideal(b)), FAdd(Err(a), Err(b)))
    ELSE FAdd(a, b)

f64_div(a, b) ==
    LET q == FDiv(a, b)
    IN  IF IsFinite(q) /\ a.en = 0 /\ b.en = 0 THEN RoundF64(q, Zero) ELSE q

(***************************************************************************)
(* Program constants                                                       *)
(***************************************************************************)
MaxI32 == 2147483647
MinI32 == -2147483647 - 1

DEFAULT_SELECT_EDGE_FALLOFF == R(0, 1)
DEFAULT_SELECT_LOWER_BOUND == R(-1, 1)
DEFAULT_SELECT_UPPER_BOUND == R(1, 1)

DEFAULT_CLAMP_LOWER_BOUND == R(-1, 1)
DEFAULT_CLAMP_UPPER_BOUND == R(1, 1)

DEFAULT_PERLIN_FREQUENCY == R(1, 1)
DEFAULT_PERLIN_LACUNARITY == R(2, 1)
DEFAULT_PERLIN_OCTAVE_COUNT == 6
DEFAULT_PERLIN_PERSISTENCE == R(1, 2)
DEFAULT_PERLIN_QUALITY == "Standard"
DEFAULT_PERLIN_SEED == 0
PERLIN_MAX_OCTAVE == 30

DEFAULT_BILLOW_FREQUENCY == R(1, 1)
DEFAULT_BILLOW_LACUNARITY == R(2, 1)
DEFAULT_BILLOW_OCTAVE_COUNT == 6
DEFAULT_BILLOW_PERSISTENCE == R(1, 2)
DEFAULT_BILLOW_QUALITY == "Standard"
DEFAULT_BILLOW_SEED == 0
BILLOW_MAX_OCTAVE == 30

DEFAULT_ROTATE_X == R(0, 1)
DEFAULT_ROTATE_Y == R(0, 1)
DEFAULT_ROTATE_Z == R(0, 1)

DEFAULT_TURBULENCE_FREQUENCY == DEFAULT_PERLIN_FREQUENCY
DEFAULT_TURBULENCE_POWER == R(1, 1)
DEFAULT_TURBULENCE_ROUGHNESS == 3
DEFAULT_TURBULENCE_SEED == DEFAULT_PERLIN_SEED

DEFAULT_RIDGED_FREQUENCY == R(1, 1)
DEFAULT_RIDGED_LACUNARITY == R(2, 1)
DEFAULT_RIDGED_OCTAVE_COUNT == 6
DEFAULT_RIDGED_QUALITY == "Standard"
DEFAULT_RIDGED_SEED == 0
RIDGED_MAX_OCTAVE == 30

(***************************************************************************)
(* util.rs                                                                 *)
(***************************************************************************)
\* mutant: the two values change places
linear_interp_Swapped(n0, n1, a) == FAdd(FMul(FSub(One, a), n1), FMul(a, n0))

linear_interp(n0, n1, a) == FAdd(FMul(FSub(One, a), n0), FMul(a, n1))

\* mutant: the constant term is the value before the first one
cubic_interp_FromN0(n0, n1, n2, n3, a) ==
    LET p == FSub(FSub(n3, n2), FSub(n0, n1))
        q == FSub(FSub(n0, n1), p)
        r == FSub(n2, n0)
        s == n0
    IN  FAdd(FAdd(FAdd(FMul(FMul(FMul(p, a), a), a), FMul(FMul(q, a), a)),
                  FMul(r, a)), s)

cubic_interp(n0, n1, n2, n3, a) ==
    LET p == FSub(FSub(n3, n2), FSub(n0, n1))
        q == FSub(FSub(n0, n1), p)
        r == FSub(n2, n0)
        s == n1
    IN  FAdd(FAdd(FAdd(FMul(FMul(FMul(p, a), a), a), FMul(FMul(q, a), a)),
                  FMul(r, a)), s)

scurve3(a) == FMul(FMul(a, a), FSub(R(3, 1), FMul(Two, a)))

\* mutant: the upper bound is not applied
clamp_NoUpper(value, lower_bound, upper_bound) ==
    IF value < lower_bound THEN lower_bound ELSE value

\* clamp over isize
clamp(value, lower_bound, upper_bound) ==
    IF value < lower_bound THEN lower_bound
    ELSE IF value > upper_bound THEN upper_bound
    ELSE value

(***************************************************************************)
(* Vec helpers: indices are 0-based as in the source                       *)
(***************************************************************************)
At(s, i) == s[i + 1]

InsertAt(s, idx, e) == SubSeq(s, 1, idx) \o <<e>> \o SubSeq(s, idx + 1, Len(s))

\* slice::binary_search_by over the keys of a Vec, the comparator being
\* |x| x.partial_cmp(&target).unwrap(): Ok(idx) of a match, else Err(idx) of
\* the insertion position.  The caller has excluded a NaN target.
RECURSIVE BSearch(_, _, _, _)
BSearch(keys, target, lo, hi) ==
    IF lo >= hi THEN [ok |-> FALSE, idx |-> lo]
    ELSE LET mid == lo + ((hi - lo) \div 2)
             c == partial_cmp(At(keys, mid), target)
         IN  IF c = "Less" THEN BSearch(keys, target, mid + 1, hi)
             ELSE IF c = "Greater" THEN BSearch(keys, target, lo, mid)
             ELSE [ok |-> TRUE, idx |-> mid]

binary_search_by(keys, target) == BSearch(keys, target, 0, Len(keys))

(***************************************************************************)
(* Inputs                                                                  *)
(***************************************************************************)
Specials == {NaN, PInf, NInf}

\* control-point values an application passes
PointVals == {R(i, 1) : i \in (-1)..MaxVal} \cup Specials

\* counts given to make_control_points
Counts == (-1)..MaxCount

OutVals == {R(-1, 1), R(2, 1), NaN}

\* values the source module returns: the points, the midpoints between
\* them, values below and above all of them, and the specials
SourceVals == {R(i, 2) : i \in (-3)..(2 * MaxVal + 1)} \cup Specials

\* bounds and falloffs given to Select: halves, so that a clamped falloff is
\* again among them
BoundVals == {R(i, 1) : i \in (-MaxBound)..MaxBound} \cup Specials

FalloffVals == {R(i, 2) : i \in (-1)..(2 * MaxBound + 1)} \cup Specials

\* bounds given to Clamp: halves
ClampBoundVals == {R(i, 2) : i \in (-2 * MaxBound)..(2 * MaxBound)} \cup Specials

\* values the source module of a Clamp returns: halves from below every
\* bound to above every bound
ChildVals == {R(i, 2) : i \in (-2 * MaxBound - 2)..(2 * MaxBound + 2)} \cup Specials

\* values the control module of a Select returns: halves from below every
\* band to above every band
ControlVals == {R(i, 2) : i \in (-4)..(2 * MaxBound + 2)} \cup {NaN, PInf}

\* values the two source modules of a Select return, as pairs
\* <<module1's, module2's>>
ModuleVals == {<<R(-1, 1), R(3, 1)>>, <<R(3, 1), R(-1, 1)>>, <<R(-1, 1), PInf>>}

\* coordinates a Displace is evaluated at
CoordVals == {R(i, 1) : i \in 0..MaxCoord}

\* modules given to a Displace as children: a Constant, and modules of the
\* application that return the x coordinate or a weighted sum of the three
ChildModules ==
    {[type |-> "Constant", val |-> One], [type |-> "Constant", val |-> Two],
     [type |-> "AxisX", val |-> Zero], [type |-> "Weighted", val |-> Zero]}

\* i32 arguments: the ends of the range, and both sides of each limit
OctaveVals == {MinI32, 0, 1, PERLIN_MAX_OCTAVE, PERLIN_MAX_OCTAVE + 1, MaxI32}

SeedVals == {0, MaxI32 - 1, MaxI32}

FrequencyVals == {R(1, 1), R(2, 1)}

\* lacunarities: those whose powers up to RIDGED_MAX_OCTAVE - 1 are integers
\* of at most 31 bits, or reciprocals of such
LacunarityVals == {R(-2, 1), R(-1, 1), Zero, One, Two, R(1, 2), NaN, PInf}

\* angles in degrees: quarter turns, and NaN
AngleVals == {R(90 * k, 1) : k \in (-1)..MaxTurn} \cup {NaN}

PowerVals == {R(1, 1), R(1, 2)}

NoiseQuality == {"Fast", "Standard", "Best"}

\* coordinates and frequencies given to Cylinders and Spheres: halves
RingCoords == {R(i, 2) : i \in (-1)..(MaxRing + 1)} \cup {NaN, PInf}

\* the coordinate along the axis of the cylinders
AxisCoords == {Zero, NaN}

RingFrequencies == {R(1, 2), Two, NaN}

\* the integer radii of the rings near the coordinates above
Radii == 0..(2 * MaxRing + 4)

\* source modules of an Invert: those of a Displace, and Constants of the
\* special values
InvertSources ==
    ChildModules \cup {[type |-> "Constant", val |-> v] : v \in {R(-1, 2), NaN, PInf}}

\* octave counts set before an evaluation; the default is evaluated too
EvalOctaves == 0..MaxOctaves

\* coordinates of an evaluation: a lattice point and points between
EvalCoords == {Zero, R(1, 2)}

EvalFrequencies == {One, Two}

EvalLacunarities == {Two, R(3, 1)}

EvalPersistences == {R(1, 2), One}

\* coordinates given to Voronoi: lattice points and points between them on
\* both sides of zero, a NaN and an infinite coordinate
VoronoiPoints ==
    {<<x, R(1, 2), R(1, 2)>> : x \in {R(-1, 1), R(-1, 2), R(1, 2)}}
        \cup {<<Zero, Zero, Zero>>, <<NaN, Zero, Zero>>, <<PInf, Zero, Zero>>}

VoronoiScales == {Two}

VoronoiSeeds == {MaxI32}

\* the source values and coordinates of the evaluations that are repeated
ProbeVals == {R(-1, 2), R(1, 4), R(2, 1)}

ProbeCoords == {R(0, 1), R(1, 1)}


\* what is remembered after an evaluation (nothing, when no history is kept):
\* the evaluation just made, or the one remembered before it together with
\* whether one or several evaluations were made since
Remember(call) ==
    IF ~keep_history THEN {<<>>}
    ELSE {<<call, 0>>} \cup
         (IF memo = <<>> THEN {}
          ELSE {<<memo[1], IF memo[2] = 0 THEN 1 ELSE 2>>})

(***************************************************************************)
(* Curve (curve.rs)                                                        *)
(***************************************************************************)
CurveNew == [control_points |-> <<>>]

CurveKeys(c) == [i \in 1..Len(c.control_points) |-> c.control_points[i].input_value]

\* mutant: the new point is pushed at the end instead of inserted in order
CurveAddControlPoint_Push(c, input_value, output_value) ==
    IF is_nan(input_value) \/ is_nan(output_value)
    THEN [self |-> c, status |-> "panic"]
    ELSE LET found == binary_search_by(CurveKeys(c), input_value)
         IN  IF found.ok
             THEN [self |-> c, status |-> "panic"]
             ELSE [self |-> [c EXCEPT !.control_points =
                                Append(@, [input_value |-> input_value,
                                           output_value |-> output_value])],
                   status |-> "ok"]

\* the Curve after add_control_point, and whether the call panicked
CurveAddControlPoint(c, input_value, output_value) ==
    IF is_nan(input_value) \/ is_nan(output_value)
    THEN [self |-> c, status |-> "panic"]
    ELSE LET found == binary_search_by(CurveKeys(c), input_value)
         IN  IF found.ok
             THEN [self |-> c, status |-> "panic"]
             ELSE [self |-> [c EXCEPT !.control_points =
                                InsertAt(@, found.idx,
                                         [input_value |-> input_value,
                                          output_value |-> output_value])],
                   status |-> "ok"]

\* mutant: coincident neighbours are interpolated like any others
CurveGetValue_Extrapolate(c, source_value) ==
    LET len == Len(c.control_points)
    IN  IF len < 4 THEN [status |-> "panic", ret |-> NaN, reads |-> {}]
        ELSE IF is_nan(source_value)
        THEN [status |-> "panic", ret |-> NaN, reads |-> {}]
        ELSE LET found == binary_search_by(CurveKeys(c), source_value)
                 idx_pos == IF found.ok THEN found.idx + 1 ELSE found.idx
                 idx0 == clamp(idx_pos - 2, 0, len - 1)
                 idx1 == clamp(idx_pos - 1, 0, len - 1)
                 idx2 == clamp(idx_pos, 0, len - 1)
                 idx3 == clamp(idx_pos + 1, 0, len - 1)
                 cp(i) == At(c.control_points, i)
                 input0 == cp(idx1).input_value
                 input1 == cp(idx2).input_value
                 alpha == FDiv(FSub(source_value, input0), FSub(input1, input0))
             IN  [status |-> "ok",
                  ret |-> cubic_interp(cp(idx0).output_value, cp(idx1).output_value,
                                       cp(idx2).output_value, cp(idx3).output_value,
                                       alpha),
                  reads |-> {idx0, idx1, idx2, idx3}]

\* Curve::get_value for a source module returning source_value: the status,
\* the returned value, and the control-point indices it reads
CurveGetValue(c, source_value) ==
    LET len == Len(c.control_points)
    IN  IF len < 4 THEN [status |-> "panic", ret |-> NaN, reads |-> {}]
        ELSE IF is_nan(source_value)
        THEN [status |-> "panic", ret |-> NaN, reads |-> {}]
        ELSE LET found == binary_search_by(CurveKeys(c), source_value)
                 idx_pos == IF found.ok THEN found.idx + 1 ELSE found.idx
                 idx0 == clamp(idx_pos - 2, 0, len - 1)
                 idx1 == clamp(idx_pos - 1, 0, len - 1)
                 idx2 == clamp(idx_pos, 0, len - 1)
                 idx3 == clamp(idx_pos + 1, 0, len - 1)
                 cp(i) == At(c.control_points, i)
             IN  IF idx1 = idx2
                 THEN IF idx1 \in 0..(len - 1)
                      THEN [status |-> "ok", ret |-> cp(idx1).output_value,
                            reads |-> {idx1}]
                      ELSE [status |-> "panic", ret |-> NaN, reads |-> {idx1}]
                 ELSE IF {idx0, idx1, idx2, idx3} \subseteq 0..(len - 1)
                      THEN LET input0 == cp(idx1).input_value
                               input1 == cp(idx2).input_value
                               alpha == FDiv(FSub(source_value, input0),
                                             FSub(input1, input0))
                           IN  [status |-> "ok",
                                ret |-> cubic_interp(cp(idx0).output_value,
                                                     cp(idx1).output_value,
                                                     cp(idx2).output_value,
                                                     cp(idx3).output_value,
                                                     alpha),
                                reads |-> {idx0, idx1, idx2, idx3}]
                      ELSE [status |-> "panic", ret |-> NaN,
                            reads |-> {idx0, idx1, idx2, idx3}]

CurveAdd(input_value, output_value) ==
    /\ kind = "Curve"
    /\ Len(curve.control_points) < MaxPoints
    /\ LET r == CurveAddControlPoint(curve, input_value, output_value)
       IN  /\ curve' = r.self
           /\ last' = [op |-> "add_control_point", status |-> r.status,
                       args |-> <<input_value, output_value>>]
    /\ memo' = <<>>
    /\ UNCHANGED NotCurve

CurveClear ==
    /\ kind = "Curve"
    /\ curve' = [curve EXCEPT !.control_points = <<>>]
    /\ last' = [op |-> "clear_control_points", status |-> "ok", args |-> <<>>]
    /\ memo' = <<>>
    /\ UNCHANGED NotCurve

CurveGet(source_value) ==
    /\ kind = "Curve"
    /\ LET r == CurveGetValue(curve, source_value)
       IN  last' = [op |-> "get_value", status |-> r.status,
                    args |-> <<source_value>>, ret |-> r.ret, reads |-> r.reads]
    /\ memo' \in Remember(last')
    /\ UNCHANGED curve
    /\ UNCHANGED NotCurve

(***************************************************************************)
(* Terrace (terrace.rs)                                                    *)
(***************************************************************************)
TerraceNew == [invert_terraces |-> FALSE, control_points |-> <<>>]

\* mutant: the new point is pushed at the end instead of inserted in order
TerraceAddControlPoint_Push(t, value) ==
    IF is_nan(value)
    THEN [self |-> t, status |-> "panic"]
    ELSE LET found == binary_search_by(t.control_points, value)
         IN  IF found.ok
             THEN [self |-> t, status |-> "panic"]
             ELSE [self |-> [t EXCEPT !.control_points = Append(@, value)],
                   status |-> "ok"]

TerraceAddControlPoint(t, value) ==
    IF is_nan(value)
    THEN [self |-> t, status |-> "panic"]
    ELSE LET found == binary_search_by(t.control_points, value)
         IN  IF found.ok
             THEN [self |-> t, status |-> "panic"]
             ELSE [self |-> [t EXCEPT !.control_points =
                                InsertAt(@, found.idx, value)],
                   status |-> "ok"]

\* the loop of make_control_points: push cur_value, then add terrace_step
RECURSIVE PushSteps(_, _, _, _)
PushSteps(points, cur_value, terrace_step, remaining) ==
    IF remaining <= 0 THEN points
    ELSE PushSteps(Append(points, cur_value), f64_add(cur_value, terrace_step),
                   terrace_step, remaining - 1)

\* mutant: the old points are cleared before count is checked
TerraceMakeControlPoints_ClearFirst(t, count) ==
    LET cleared == [t EXCEPT !.control_points = <<>>]
    IN  IF count < 2
        THEN [self |-> cleared, status |-> "panic"]
        ELSE LET terrace_step == f64_div(Two, FSub(R(count, 1), One))
             IN  [self |-> [t EXCEPT !.control_points =
                                PushSteps(<<>>, R(-1, 1), terrace_step, count)],
                  status |-> "ok"]

TerraceMakeControlPoints(t, count) ==
    IF count < 2
    THEN [self |-> t, status |-> "panic"]
    ELSE LET terrace_step == f64_div(Two, FSub(R(count, 1), One))
         IN  [self |-> [t EXCEPT !.control_points =
                            PushSteps(<<>>, R(-1, 1), terrace_step, count)],
              status |-> "ok"]

\* mutant: coincident neighbours are interpolated like any others
TerraceGetValue_Extrapolate(t, source_value) ==
    LET len == Len(t.control_points)
    IN  IF len < 2 THEN [status |-> "panic", ret |-> NaN, reads |-> {}]
        ELSE IF is_nan(source_value)
        THEN [status |-> "panic", ret |-> NaN, reads |-> {}]
        ELSE LET found == binary_search_by(t.control_points, source_value)
                 idx_pos == IF found.ok THEN found.idx + 1 ELSE found.idx
                 idx0 == clamp(idx_pos - 1, 0, len - 1)
                 idx1 == clamp(idx_pos, 0, len - 1)
                 cp(i) == At(t.control_points, i)
                 a0 == FDiv(FSub(source_value, cp(idx0)), FSub(cp(idx1), cp(idx0)))
                 value0 == IF t.invert_terraces THEN cp(idx1) ELSE cp(idx0)
                 value1 == IF t.invert_terraces THEN cp(idx0) ELSE cp(idx1)
                 a1 == IF t.invert_terraces THEN FSub(One, a0) ELSE a0
                 alpha == FMul(a1, a1)
             IN  [status |-> "ok", ret |-> linear_interp(value0, value1, alpha),
                  reads |-> {idx0, idx1}]

TerraceGetValue(t, source_value) ==
    LET len == Len(t.control_points)
    IN  IF len < 2 THEN [status |-> "panic", ret |-> NaN, reads |-> {}]
        ELSE IF is_nan(source_value)
        THEN [status |-> "panic", ret |-> NaN, reads |-> {}]
        ELSE LET found == binary_search_by(t.control_points, source_value)
                 idx_pos == IF found.ok THEN found.idx + 1 ELSE found.idx
                 idx0 == clamp(idx_pos - 1, 0, len - 1)
                 idx1 == clamp(idx_pos, 0, len - 1)
                 cp(i) == At(t.control_points, i)
             IN  IF ~({idx0, idx1} \subseteq 0..(len - 1))
                 THEN [status |-> "panic", ret |-> NaN, reads |-> {idx0, idx1}]
                 ELSE IF idx0 = idx1
                 THEN [status |-> "ok", ret |-> cp(idx1), reads |-> {idx1}]
                 ELSE LET a0 == FDiv(FSub(source_value, cp(idx0)),
                                     FSub(cp(idx1), cp(idx0)))
                          value0 == IF t.invert_terraces THEN cp(idx1) ELSE cp(idx0)
                          value1 == IF t.invert_terraces THEN cp(idx0) ELSE cp(idx1)
                          a1 == IF t.invert_terraces THEN FSub(One, a0) ELSE a0
                          alpha == FMul(a1, a1)
                      IN  [status |-> "ok",
                           ret |-> linear_interp(value0, value1, alpha),
                           reads |-> {idx0, idx1}]

TerraceAdd(value) ==
    /\ kind = "Terrace"
    /\ Len(terrace.control_points) < MaxTerracePoints
    /\ LET r == TerraceAddControlPoint(terrace, value)
       IN  /\ terrace' = r.self
           /\ last' = [op |-> "add_control_point", status |-> r.status,
                       args |-> <<value>>]
    /\ memo' = <<>>
    /\ UNCHANGED NotTerrace

TerraceMake(count) ==
    /\ kind = "Terrace"
    /\ LET r == TerraceMakeControlPoints(terrace, count)
       IN  /\ terrace' = r.self
           /\ last' = [op |-> "make_control_points", status |-> r.status,
                       args |-> <<count>>]
    /\ memo' = <<>>
    /\ UNCHANGED NotTerrace

TerraceSetInvert(invert) ==
    /\ kind = "Terrace"
    /\ terrace' = [terrace EXCEPT !.invert_terraces = invert]
    /\ last' = [op |-> "set_invert_terraces", status |-> "ok", args |-> <<invert>>]
    /\ memo' = <<>>
    /\ UNCHANGED NotTerrace

\* mutant: an evaluation flips invert_terraces
TerraceGet_Flip(source_value) ==
    /\ kind = "Terrace"
    /\ LET r == TerraceGetValue(terrace, source_value)
       IN  last' = [op |-> "get_value", status |-> r.status,
                    args |-> <<source_value>>, ret |-> r.ret, reads |-> r.reads]
    /\ memo' \in Remember(last')
    /\ terrace' = [terrace EXCEPT !.invert_terraces = ~terrace.invert_terraces]
    /\ UNCHANGED NotTerrace

TerraceGet(source_value) ==
    /\ kind = "Terrace"
    /\ LET r == TerraceGetValue(terrace, source_value)
       IN  last' = [op |-> "get_value", status |-> r.status,
                    args |-> <<source_value>>, ret |-> r.ret, reads |-> r.reads]
    /\ memo' \in Remember(last')
    /\ UNCHANGED terrace
    /\ UNCHANGED NotTerrace

(***************************************************************************)
(* Select (select.rs)                                                      *)
(***************************************************************************)
SelectNew ==
    [edge_falloff |-> DEFAULT_SELECT_EDGE_FALLOFF,
     lower_bound |-> DEFAULT_SELECT_LOWER_BOUND,
     upper_bound |-> DEFAULT_SELECT_UPPER_BOUND]

\* mutant: the falloff is never clamped
clamp_falloff_Off(sel) == sel

\* mutant: the falloff always becomes half the bound size
clamp_falloff_Always(sel) ==
    [sel EXCEPT !.edge_falloff =
        FDiv(FSub(sel.upper_bound, sel.lower_bound), Two)]

clamp_falloff(sel) ==
    LET bound_size == FSub(sel.upper_bound, sel.lower_bound)
    IN  IF FLt(FDiv(bound_size, Two), sel.edge_falloff)
        THEN [sel EXCEPT !.edge_falloff = FDiv(bound_size, Two)]
        ELSE sel

SelectSetEdgeFalloff(sel, edge_falloff) ==
    [self |-> clamp_falloff([sel EXCEPT !.edge_falloff = edge_falloff]),
     status |-> "ok"]

SelectSetBounds(sel, lower_bound, upper_bound) ==
    IF FGt(lower_bound, upper_bound)
    THEN [self |-> sel, status |-> "panic"]
    ELSE [self |-> clamp_falloff([sel EXCEPT !.lower_bound = lower_bound,
                                            !.upper_bound = upper_bound]),
          status |-> "ok"]

SetEdgeFalloff(edge_falloff) ==
    /\ kind = "Select"
    /\ LET r == SelectSetEdgeFalloff(select, edge_falloff)
       IN  /\ select' = r.self
           /\ last' = [op |-> "set_edge_falloff", status |-> r.status,
                       args |-> <<edge_falloff>>]
    /\ memo' = <<>>
    /\ UNCHANGED NotSelect

SetBounds(lower_bound, upper_bound) ==
    /\ kind = "Select"
    /\ LET r == SelectSetBounds(select, lower_bound, upper_bound)
       IN  /\ select' = r.self
           /\ last' = [op |-> "set_bounds", status |-> r.status,
                       args |-> <<lower_bound, upper_bound>>]
    /\ memo' = <<>>
    /\ UNCHANGED NotSelect

\* mutant: without falloff the bounds are exclusive
SelectGetValue_Exclusive(sel, control_value, value1, value2) ==
    IF FGt(sel.edge_falloff, Zero)
    THEN IF FLt(control_value, FSub(sel.lower_bound, sel.edge_falloff))
         THEN [ret |-> value1, reads |-> {"module1"}]
         ELSE IF FLt(control_value, FAdd(sel.lower_bound, sel.edge_falloff))
         THEN LET lower_curve == FSub(sel.lower_bound, sel.edge_falloff)
                  upper_curve == FAdd(sel.lower_bound, sel.edge_falloff)
                  alpha == scurve3(FDiv(FSub(control_value, lower_curve),
                                        FSub(upper_curve, lower_curve)))
              IN  [ret |-> linear_interp(value1, value2, alpha),
                   reads |-> {"module1", "module2"}]
         ELSE IF FLt(control_value, FSub(sel.upper_bound, sel.edge_falloff))
         THEN [ret |-> value2, reads |-> {"module2"}]
         ELSE IF FLt(control_value, FAdd(sel.upper_bound, sel.edge_falloff))
         THEN LET lower_curve == FSub(sel.upper_bound, sel.edge_falloff)
                  upper_curve == FAdd(sel.upper_bound, sel.edge_falloff)
                  alpha == scurve3(FDiv(FSub(control_value, lower_curve),
                                        FSub(upper_curve, lower_curve)))
              IN  [ret |-> linear_interp(value2, value1, alpha),
                   reads |-> {"module1", "module2"}]
         ELSE [ret |-> value1, reads |-> {"module1"}]
    ELSE IF FLe(control_value, sel.lower_bound) \/ FLe(sel.upper_bound, control_value)
         THEN [ret |-> value1, reads |-> {"module1"}]
         ELSE [ret |-> value2, reads |-> {"module2"}]

\* mutant: the lower band blends from module2 to module1
SelectGetValue_SwappedBlend(sel, control_value, value1, value2) ==
    IF FGt(sel.edge_falloff, Zero)
    THEN IF FLt(control_value, FSub(sel.lower_bound, sel.edge_falloff))
         THEN [ret |-> value1, reads |-> {"module1"}]
         ELSE IF FLt(control_value, FAdd(sel.lower_bound, sel.edge_falloff))
         THEN LET lower_curve == FSub(sel.lower_bound, sel.edge_falloff)
                  upper_curve == FAdd(sel.lower_bound, sel.edge_falloff)
                  alpha == scurve3(FDiv(FSub(control_value, lower_curve),
                                        FSub(upper_curve, lower_curve)))
              IN  [ret |-> linear_interp(value2, value1, alpha),
                   reads |-> {"module1", "module2"}]
         ELSE IF FLt(control_value, FSub(sel.upper_bound, sel.edge_falloff))
         THEN [ret |-> value2, reads |-> {"module2"}]
         ELSE IF FLt(control_value, FAdd(sel.upper_bound, sel.edge_falloff))
         THEN LET lower_curve == FSub(sel.upper_bound, sel.edge_falloff)
                  upper_curve == FAdd(sel.upper_bound, sel.edge_falloff)
                  alpha == scurve3(FDiv(FSub(control_value, lower_curve),
                                        FSub(upper_curve, lower_curve)))
              IN  [ret |-> linear_interp(value2, value1, alpha),
                   reads |-> {"module1", "module2"}]
         ELSE [ret |-> value1, reads |-> {"module1"}]
    ELSE IF FLt(control_value, sel.lower_bound) \/ FGt(control_value, sel.upper_bound)
         THEN [ret |-> value1, reads |-> {"module1"}]
         ELSE [ret |-> value2, reads |-> {"module2"}]

\* mutant: the band around the upper bound is never entered
SelectGetValue_NoUpperBand(sel, control_value, value1, value2) ==
    IF FGt(sel.edge_falloff, Zero)
    THEN IF FLt(control_value, FSub(sel.lower_bound, sel.edge_falloff))
         THEN [ret |-> value1, reads |-> {"module1"}]
         ELSE IF FLt(control_value, FAdd(sel.lower_bound, sel.edge_falloff))
         THEN LET lower_curve == FSub(sel.lower_bound, sel.edge_falloff)
                  upper_curve == FAdd(sel.lower_bound, sel.edge_falloff)
                  alpha == scurve3(FDiv(FSub(control_value, lower_curve),
                                        FSub(upper_curve, lower_curve)))
              IN  [ret |-> linear_interp(value1, value2, alpha),
                   reads |-> {"module1", "module2"}]
         ELSE IF FLt(control_value, FSub(sel.upper_bound, sel.edge_falloff))
         THEN [ret |-> value2, reads |-> {"module2"}]
         ELSE IF FLt(control_value, FSub(sel.upper_bound, sel.edge_falloff))
         THEN LET lower_curve == FSub(sel.upper_bound, sel.edge_falloff)
                  upper_curve == FAdd(sel.upper_bound, sel.edge_falloff)
                  alpha == scurve3(FDiv(FSub(control_value, lower_curve),
                                        FSub(upper_curve, lower_curve)))
              IN  [ret |-> linear_interp(value2, value1, alpha),
                   reads |-> {"module1", "module2"}]
         ELSE [ret |-> value1, reads |-> {"module1"}]
    ELSE IF FLt(control_value, sel.lower_bound) \/ FGt(control_value, sel.upper_bound)
         THEN [ret |-> value1, reads |-> {"module1"}]
         ELSE [ret |-> value2, reads |-> {"module2"}]

\* Select::get_value for a control module returning control_value and source
\* modules returning value1 and value2: the returned value and the source
\* modules it evaluates
SelectGetValue(sel, control_value, value1, value2) ==
    IF FGt(sel.edge_falloff, Zero)
    THEN IF FLt(control_value, FSub(sel.lower_bound, sel.edge_falloff))
         THEN [ret |-> value1, reads |-> {"module1"}]
         ELSE IF FLt(control_value, FAdd(sel.lower_bound, sel.edge_falloff))
         THEN LET lower_curve == FSub(sel.lower_bound, sel.edge_falloff)
                  upper_curve == FAdd(sel.lower_bound, sel.edge_falloff)
                  alpha == scurve3(FDiv(FSub(control_value, lower_curve),
                                        FSub(upper_curve, lower_curve)))
              IN  [ret |-> linear_interp(value1, value2, alpha),
                   reads |-> {"module1", "module2"}]
         ELSE IF FLt(control_value, FSub(sel.upper_bound, sel.edge_falloff))
         THEN [ret |-> value2, reads |-> {"module2"}]
         ELSE IF FLt(control_value, FAdd(sel.upper_bound, sel.edge_falloff))
         THEN LET lower_curve == FSub(sel.upper_bound, sel.edge_falloff)
                  upper_curve == FAdd(sel.upper_bound, sel.edge_falloff)
                  alpha == scurve3(FDiv(FSub(control_value, lower_curve),
                                        FSub(upper_curve, lower_curve)))
              IN  [ret |-> linear_interp(value2, value1, alpha),
                   reads |-> {"module1", "module2"}]
         ELSE [ret |-> value1, reads |-> {"module1"}]
    ELSE IF FLt(control_value, sel.lower_bound) \/ FGt(control_value, sel.upper_bound)
         THEN [ret |-> value1, reads |-> {"module1"}]
         ELSE [ret |-> value2, reads |-> {"module2"}]

SelectGet(control_value, value1, value2) ==
    /\ kind = "Select"
    /\ LET r == SelectGetValue(select, control_value, value1, value2)
       IN  last' = [op |-> "get_value", status |-> "ok",
                    args |-> <<control_value, value1, value2>>,
                    ret |-> r.ret, reads |-> r.reads]
    /\ memo' \in Remember(last')
    /\ UNCHANGED select
    /\ UNCHANGED NotSelect

(***************************************************************************)
(* Clamp (clamp.rs)                                                        *)
(***************************************************************************)
ClampNew ==
    [lower_bound |-> DEFAULT_CLAMP_LOWER_BOUND,
     upper_bound |-> DEFAULT_CLAMP_UPPER_BOUND]

\* mutant: equal bounds are rejected too
ClampSetBounds_Strict(c, lower_bound, upper_bound) ==
    IF FLe(upper_bound, lower_bound)
    THEN [self |-> c, status |-> "panic"]
    ELSE [self |-> [c EXCEPT !.lower_bound = lower_bound,
                             !.upper_bound = upper_bound],
          status |-> "ok"]

ClampSetBounds(c, lower_bound, upper_bound) ==
    IF FGt(lower_bound, upper_bound)
    THEN [self |-> c, status |-> "panic"]
    ELSE [self |-> [c EXCEPT !.lower_bound = lower_bound,
                             !.upper_bound = upper_bound],
          status |-> "ok"]

\* mutant: only the lower bound is applied
ClampGetValue_NoUpper(c, value) ==
    IF FLt(value, c.lower_bound) THEN c.lower_bound ELSE value

\* Clamp::get_value for a source module returning value
ClampGetValue(c, value) ==
    IF FLt(value, c.lower_bound) THEN c.lower_bound
    ELSE IF FGt(value, c.upper_bound) THEN c.upper_bound
    ELSE value

ClampBounds(lower_bound, upper_bound) ==
    /\ kind = "Clamp"
    /\ LET r == ClampSetBounds(clampmod, lower_bound, upper_bound)
       IN  /\ clampmod' = r.self
           /\ last' = [op |-> "set_bounds", status |-> r.status,
                       args |-> <<lower_bound, upper_bound>>]
    /\ memo' = <<>>
    /\ UNCHANGED NotClamp

ClampGet(value) ==
    /\ kind = "Clamp"
    /\ last' = [op |-> "get_value", status |-> "ok", args |-> <<value>>,
                ret |-> ClampGetValue(clampmod, value)]
    /\ memo' \in Remember(last')
    /\ UNCHANGED clampmod
    /\ UNCHANGED NotClamp

(***************************************************************************)
(* Displace (displace.rs) and the modules given to it                      *)
(***************************************************************************)
DEFAULT_CONST_VALUE == R(0, 1)

ConstantNew == [type |-> "Constant", val |-> DEFAULT_CONST_VALUE]

\* Module::get_value of a child module
ModuleGetValue(m, x, y, z) ==
    CASE m.type = "Constant" -> m.val
      [] m.type = "AxisX" -> x
      [] OTHER -> FAdd(FAdd(x, FMul(Two, y)), FMul(R(4, 1), z))

DisplaceNew ==
    [msource |-> ConstantNew, mdisp_x |-> ConstantNew,
     mdisp_y |-> ConstantNew, mdisp_z |-> ConstantNew]

\* mutant: each displacement module sees the coordinates displaced so far
DisplaceGetValue_Chained(d, x, y, z) ==
    LET x_displace == FAdd(x, ModuleGetValue(d.mdisp_x, x, y, z))
        y_displace == FAdd(y, ModuleGetValue(d.mdisp_y, x_displace, y, z))
        z_displace == FAdd(z, ModuleGetValue(d.mdisp_z, x_displace, y_displace, z))
    IN  [ret |-> ModuleGetValue(d.msource, x_displace, y_displace, z_displace),
         calls |-> <<[child |-> "mdisp_x", at |-> <<x, y, z>>],
                     [child |-> "mdisp_y", at |-> <<x_displace, y, z>>],
                     [child |-> "mdisp_z", at |-> <<x_displace, y_displace, z>>],
                     [child |-> "msource",
                      at |-> <<x_displace, y_displace, z_displace>>]>>]

\* Displace::get_value: the returned value and the calls made on the
\* children, in order, with the coordinate each is given
DisplaceGetValue(d, x, y, z) ==
    LET x_displace == FAdd(x, ModuleGetValue(d.mdisp_x, x, y, z))
        y_displace == FAdd(y, ModuleGetValue(d.mdisp_y, x, y, z))
        z_displace == FAdd(z, ModuleGetValue(d.mdisp_z, x, y, z))
    IN  [ret |-> ModuleGetValue(d.msource, x_displace, y_displace, z_displace),
         calls |-> <<[child |-> "mdisp_x", at |-> <<x, y, z>>],
                     [child |-> "mdisp_y", at |-> <<x, y, z>>],
                     [child |-> "mdisp_z", at |-> <<x, y, z>>],
                     [child |-> "msource",
                      at |-> <<x_displace, y_displace, z_displace>>]>>]

DisplaceSetModule(module) ==
    /\ kind = "Displace"
    /\ displace' = [displace EXCEPT !.msource = module]
    /\ last' = [op |-> "set_module", status |-> "ok", args |-> <<module>>]
    /\ memo' = <<>>
    /\ UNCHANGED NotDisplace

DisplaceSetX(module) ==
    /\ kind = "Displace"
    /\ displace' = [displace EXCEPT !.mdisp_x = module]
    /\ last' = [op |-> "set_x_displace_module", status |-> "ok", args |-> <<module>>]
    /\ memo' = <<>>
    /\ UNCHANGED NotDisplace

DisplaceSetY(module) ==
    /\ kind = "Displace"
    /\ displace' = [displace EXCEPT !.mdisp_y = module]
    /\ last' = [op |-> "set_y_displace_module", status |-> "ok", args |-> <<module>>]
    /\ memo' = <<>>
    /\ UNCHANGED NotDisplace

DisplaceSetZ(module) ==
    /\ kind = "Displace"
    /\ displace' = [displace EXCEPT !.mdisp_z = module]
    /\ last' = [op |-> "set_z_displace_module", status |-> "ok", args |-> <<module>>]
    /\ memo' = <<>>
    /\ UNCHANGED NotDisplace

DisplaceGet(x, y, z) ==
    /\ kind = "Displace"
    /\ LET r == DisplaceGetValue(displace, x, y, z)
       IN  last' = [op |-> "get_value", status |-> "ok", args |-> <<x, y, z>>,
                    ret |-> r.ret, calls |-> r.calls]
    /\ memo' \in Remember(last')
    /\ UNCHANGED displace
    /\ UNCHANGED NotDisplace

(***************************************************************************)
(* Perlin (perlin.rs), Billow (billow.rs)                                  *)
(***************************************************************************)
PerlinDefault ==
    [frequency |-> DEFAULT_PERLIN_FREQUENCY,
     lacunarity |-> DEFAULT_PERLIN_LACUNARITY,
     octave_count |-> DEFAULT_PERLIN_OCTAVE_COUNT,
     persistence |-> DEFAULT_PERLIN_PERSISTENCE,
     quality |-> DEFAULT_PERLIN_QUALITY,
     seed |-> DEFAULT_PERLIN_SEED]

PerlinSetFrequency(p, frequency) == [p EXCEPT !.frequency = frequency]

PerlinSetSeed(p, seed) == [p EXCEPT !.seed = seed]

\* mutant: only the upper limit is checked
PerlinSetOctaveCount_NoLower(p, octave_count) ==
    IF octave_count > PERLIN_MAX_OCTAVE
    THEN [self |-> p, status |-> "panic"]
    ELSE [self |-> [p EXCEPT !.octave_count = octave_count], status |-> "ok"]

PerlinSetOctaveCount(p, octave_count) ==
    IF octave_count < 1 \/ octave_count > PERLIN_MAX_OCTAVE
    THEN [self |-> p, status |-> "panic"]
    ELSE [self |-> [p EXCEPT !.octave_count = octave_count], status |-> "ok"]

PerlinOctaves(octave_count) ==
    /\ kind = "Perlin"
    /\ LET r == PerlinSetOctaveCount(perlin, octave_count)
       IN  /\ perlin' = r.self
           /\ last' = [op |-> "set_octave_count", status |-> r.status,
                       args |-> <<octave_count>>]
    /\ UNCHANGED NotPerlin

PerlinSeed(seed) ==
    /\ kind = "Perlin"
    /\ perlin' = PerlinSetSeed(perlin, seed)
    /\ last' = [op |-> "set_seed", status |-> "ok", args |-> <<seed>>]
    /\ UNCHANGED NotPerlin

PerlinFrequency(frequency) ==
    /\ kind = "Perlin"
    /\ perlin' = PerlinSetFrequency(perlin, frequency)
    /\ last' = [op |-> "set_frequency", status |-> "ok", args |-> <<frequency>>]
    /\ UNCHANGED NotPerlin

BillowDefault ==
    [frequency |-> DEFAULT_BILLOW_FREQUENCY,
     lacunarity |-> DEFAULT_BILLOW_LACUNARITY,
     octave_count |-> DEFAULT_BILLOW_OCTAVE_COUNT,
     persistence |-> DEFAULT_BILLOW_PERSISTENCE,
     quality |-> DEFAULT_BILLOW_QUALITY,
     seed |-> DEFAULT_BILLOW_SEED]

BillowSetOctaveCount(b, octave_count) ==
    IF octave_count < 1 \/ octave_count > BILLOW_MAX_OCTAVE
    THEN [self |-> b, status |-> "panic"]
    ELSE [self |-> [b EXCEPT !.octave_count = octave_count], status |-> "ok"]

BillowOctaves(octave_count) ==
    /\ kind = "Billow"
    /\ LET r == BillowSetOctaveCount(billow, octave_count)
       IN  /\ billow' = r.self
           /\ last' = [op |-> "set_octave_count", status |-> r.status,
                       args |-> <<octave_count>>]
    /\ UNCHANGED NotBillow

BillowSeed(seed) ==
    /\ kind = "Billow"
    /\ billow' = [billow EXCEPT !.seed = seed]
    /\ last' = [op |-> "set_seed", status |-> "ok", args |-> <<seed>>]
    /\ UNCHANGED NotBillow

BillowFrequency(frequency) ==
    /\ kind = "Billow"
    /\ billow' = [billow EXCEPT !.frequency = frequency]
    /\ last' = [op |-> "set_frequency", status |-> "ok", args |-> <<frequency>>]
    /\ UNCHANGED NotBillow

(***************************************************************************)
(* RidgedMulti (ridged_multi.rs)                                           *)
(***************************************************************************)
\* f64::powf(x, -h) with h = 1.0
powf_neg_h(x) == FDiv(One, x)

\* the loop of calc_spectral_weights over the remaining entries
RECURSIVE CalcWeights(_, _, _, _)
CalcWeights(weights, frequency, lacunarity, remaining) ==
    IF remaining <= 0 THEN weights
    ELSE CalcWeights(Append(weights, powf_neg_h(frequency)),
                     FMul(frequency, lacunarity), lacunarity, remaining - 1)

calc_spectral_weights(lacunarity) ==
    CalcWeights(<<>>, One, lacunarity, RIDGED_MAX_OCTAVE)

RidgedDefault ==
    [frequency |-> DEFAULT_RIDGED_FREQUENCY,
     lacunarity |-> DEFAULT_RIDGED_LACUNARITY,
     quality |-> DEFAULT_RIDGED_QUALITY,
     octave_count |-> DEFAULT_RIDGED_OCTAVE_COUNT,
     spectral_weights |-> calc_spectral_weights(DEFAULT_RIDGED_LACUNARITY),
     seed |-> DEFAULT_RIDGED_SEED]

\* mutant: the spectral weights are not recomputed
RidgedSetLacunarity_Stale(r, lacunarity) == [r EXCEPT !.lacunarity = lacunarity]

RidgedSetLacunarity(r, lacunarity) ==
    [r EXCEPT !.lacunarity = lacunarity,
              !.spectral_weights = calc_spectral_weights(lacunarity)]

RidgedSetOctaveCount(r, octave_count) ==
    IF octave_count < 1 \/ octave_count > RIDGED_MAX_OCTAVE
    THEN [self |-> r, status |-> "panic"]
    ELSE [self |-> [r EXCEPT !.octave_count = octave_count], status |-> "ok"]

RidgedLacunarity(lacunarity) ==
    /\ kind = "RidgedMulti"
    /\ ridged' = RidgedSetLacunarity(ridged, lacunarity)
    /\ last' = [op |-> "set_lacunarity", status |-> "ok", args |-> <<lacunarity>>]
    /\ UNCHANGED NotRidged

RidgedOctaves(octave_count) ==
    /\ kind = "RidgedMulti"
    /\ LET r == RidgedSetOctaveCount(ridged, octave_count)
       IN  /\ ridged' = r.self
           /\ last' = [op |-> "set_octave_count", status |-> r.status,
                       args |-> <<octave_count>>]
    /\ UNCHANGED NotRidged

RidgedFrequency(frequency) ==
    /\ kind = "RidgedMulti"
    /\ ridged' = [ridged EXCEPT !.frequency = frequency]
    /\ last' = [op |-> "set_frequency", status |-> "ok", args |-> <<frequency>>]
    /\ UNCHANGED NotRidged

RidgedQuality(quality) ==
    /\ kind = "RidgedMulti"
    /\ ridged' = [ridged EXCEPT !.quality = quality]
    /\ last' = [op |-> "set_quality", status |-> "ok", args |-> <<quality>>]
    /\ UNCHANGED NotRidged

RidgedSeed(seed) ==
    /\ kind = "RidgedMulti"
    /\ ridged' = [ridged EXCEPT !.seed = seed]
    /\ last' = [op |-> "set_seed", status |-> "ok", args |-> <<seed>>]
    /\ UNCHANGED NotRidged

(***************************************************************************)
(* RotatePoint (rotate_point.rs)                                           *)
(***************************************************************************)
\* f64::sin_cos(angle.to_radians()) for an angle in degrees: exact at the
\* multiples of 90 the model uses, NaN for a NaN or infinite angle
Quadrant(angle) == (angle.n \div 90) % 4

sin_deg(angle) ==
    IF ~IsFinite(angle) THEN NaN
    ELSE LET q == Quadrant(angle)
         IN  IF q = 1 THEN One ELSE IF q = 3 THEN R(-1, 1) ELSE Zero

cos_deg(angle) ==
    IF ~IsFinite(angle) THEN NaN
    ELSE LET q == Quadrant(angle)
         IN  IF q = 0 THEN One ELSE IF q = 2 THEN R(-1, 1) ELSE Zero

Mul3(a, b, c) == FMul(FMul(a, b), c)

\* the matrix update_matrix stores for the given angles
update_matrix(angles) ==
    LET x_sin == sin_deg(angles[1])
        x_cos == cos_deg(angles[1])
        y_sin == sin_deg(angles[2])
        y_cos == cos_deg(angles[2])
        z_sin == sin_deg(angles[3])
        z_cos == cos_deg(angles[3])
    IN  << <<FAdd(Mul3(y_sin, x_sin, z_sin), FMul(y_cos, z_cos)),
             FMul(x_cos, z_sin),
             FSub(FMul(y_sin, z_cos), Mul3(y_cos, x_sin, z_sin))>>,
           <<FSub(Mul3(y_sin, x_sin, z_cos), FMul(y_cos, z_sin)),
             FMul(x_cos, z_cos),
             FSub(Mul3(FNeg(y_cos), x_sin, z_cos), FMul(y_sin, z_sin))>>,
           <<FMul(FNeg(y_sin), x_cos),
             x_sin,
             FMul(y_cos, x_cos)>> >>

RotatePointNew ==
    LET angles == <<DEFAULT_ROTATE_X, DEFAULT_ROTATE_Y, DEFAULT_ROTATE_Z>>
    IN  [angles |-> angles, matrix |-> update_matrix(angles)]

RotateSetAngles(r, x, y, z) ==
    [angles |-> <<x, y, z>>, matrix |-> update_matrix(<<x, y, z>>)]

\* mutant: the matrix is not recomputed
RotateSetXAngle_Stale(r, x) == [r EXCEPT !.angles[1] = x]

RotateSetXAngle(r, x) ==
    LET angles == [r.angles EXCEPT ![1] = x]
    IN  [angles |-> angles, matrix |-> update_matrix(angles)]

\* set_y_angle and set_z_angle assign self.angles.0, as the source does
RotateSetYAngle(r, y) ==
    LET angles == [r.angles EXCEPT ![1] = y]
    IN  [angles |-> angles, matrix |-> update_matrix(angles)]

RotateSetZAngle(r, z) ==
    LET angles == [r.angles EXCEPT ![1] = z]
    IN  [angles |-> angles, matrix |-> update_matrix(angles)]

x_angle(r) == r.angles[1]

y_angle(r) == r.angles[2]

z_angle(r) == r.angles[3]

SetAngles(x, y, z) ==
    /\ kind = "RotatePoint"
    /\ rotate' = RotateSetAngles(rotate, x, y, z)
    /\ last' = [op |-> "set_angles", status |-> "ok", args |-> <<x, y, z>>]
    /\ UNCHANGED NotRotate

SetXAngle(x) ==
    /\ kind = "RotatePoint"
    /\ rotate' = RotateSetXAngle(rotate, x)
    /\ last' = [op |-> "set_x_angle", status |-> "ok", args |-> <<x>>]
    /\ UNCHANGED NotRotate

SetYAngle(y) ==
    /\ kind = "RotatePoint"
    /\ rotate' = RotateSetYAngle(rotate, y)
    /\ last' = [op |-> "set_y_angle", status |-> "ok", args |-> <<y>>]
    /\ UNCHANGED NotRotate

SetZAngle(z) ==
    /\ kind = "RotatePoint"
    /\ rotate' = RotateSetZAngle(rotate, z)
    /\ last' = [op |-> "set_z_angle", status |-> "ok", args |-> <<z>>]
    /\ UNCHANGED NotRotate

(***************************************************************************)
(* Turbulence (turbulence.rs)                                              *)
(***************************************************************************)
\* i32 a + b for b >= 0: with overflow checks (debug_assertions) an
\* overflowing addition panics, without them it wraps
AddI32(a, b) ==
    IF a > MaxI32 - b
    THEN [overflow |-> TRUE, value |-> MinI32 + ((a - (MaxI32 - b)) - 1)]
    ELSE [overflow |-> FALSE, value |-> a + b]

TurbSetSeed(t, seed, checked) ==
    LET t1 == [t EXCEPT !.x_distort = PerlinSetSeed(@, seed)]
        s1 == AddI32(seed, 1)
        t2 == [t1 EXCEPT !.y_distort = PerlinSetSeed(@, s1.value)]
        s2 == AddI32(seed, 2)
        t3 == [t2 EXCEPT !.z_distort = PerlinSetSeed(@, s2.value)]
    IN  IF checked /\ s1.overflow THEN [self |-> t1, status |-> "panic"]
        ELSE IF checked /\ s2.overflow THEN [self |-> t2, status |-> "panic"]
        ELSE [self |-> t3, status |-> "ok"]

TurbSetFrequency(t, frequency) ==
    [t EXCEPT !.x_distort = PerlinSetFrequency(@, frequency),
              !.y_distort = PerlinSetFrequency(@, frequency),
              !.z_distort = PerlinSetFrequency(@, frequency)]

TurbSetRoughness(t, roughness) ==
    LET rx == PerlinSetOctaveCount(t.x_distort, roughness)
        t1 == [t EXCEPT !.x_distort = rx.self]
        ry == PerlinSetOctaveCount(t.y_distort, roughness)
        t2 == [t1 EXCEPT !.y_distort = ry.self]
        rz == PerlinSetOctaveCount(t.z_distort, roughness)
        t3 == [t2 EXCEPT !.z_distort = rz.self]
    IN  IF rx.status = "panic" THEN [self |-> t, status |-> "panic"]
        ELSE IF ry.status = "panic" THEN [self |-> t1, status |-> "panic"]
        ELSE IF rz.status = "panic" THEN [self |-> t2, status |-> "panic"]
        ELSE [self |-> t3, status |-> "ok"]

TurbulenceNew ==
    LET rv == [power |-> DEFAULT_TURBULENCE_POWER,
               x_distort |-> PerlinDefault,
               y_distort |-> PerlinDefault,
               z_distort |-> PerlinDefault]
        a == TurbSetSeed(rv, DEFAULT_TURBULENCE_SEED, FALSE).self
        b == TurbSetFrequency(a, DEFAULT_TURBULENCE_FREQUENCY)
    IN  TurbSetRoughness(b, DEFAULT_TURBULENCE_ROUGHNESS).self

TurbFrequency(t) == t.x_distort.frequency

TurbRoughness(t) == t.x_distort.octave_count

TurbSeed(t) == t.x_distort.seed

SetSeed(seed) ==
    /\ kind = "Turbulence"
    /\ LET r == TurbSetSeed(turb, seed, debug_assertions)
       IN  /\ turb' = r.self
           /\ last' = [op |-> "set_seed", status |-> r.status, args |-> <<seed>>]
    /\ UNCHANGED NotTurb

SetFrequency(frequency) ==
    /\ kind = "Turbulence"
    /\ turb' = TurbSetFrequency(turb, frequency)
    /\ last' = [op |-> "set_frequency", status |-> "ok", args |-> <<frequency>>]
    /\ UNCHANGED NotTurb

SetPower(power) ==
    /\ kind = "Turbulence"
    /\ turb' = [turb EXCEPT !.power = power]
    /\ last' = [op |-> "set_power", status |-> "ok", args |-> <<power>>]
    /\ UNCHANGED NotTurb

SetRoughness(roughness) ==
    /\ kind = "Turbulence"
    /\ LET r == TurbSetRoughness(turb, roughness)
       IN  /\ turb' = r.self
           /\ last' = [op |-> "set_roughness", status |-> r.status,
                       args |-> <<roughness>>]
    /\ UNCHANGED NotTurb

(***************************************************************************)
(* f64 functions used by the shapes                                        *)
(***************************************************************************)
\* the largest integer whose square is at most i (i >= 0)
RECURSIVE ISqrtIn(_, _, _)
ISqrtIn(i, lo, hi) ==
    IF lo >= hi THEN lo
    ELSE LET mid == (lo + hi + 1) \div 2
         IN  IF mid * mid > i THEN ISqrtIn(i, lo, mid - 1) ELSE ISqrtIn(i, mid, hi)

\* 46340 is the largest root of an i32
ISqrt(i) == ISqrtIn(i, 0, IF i < 46340 THEN i ELSE 46340)

\* the denominator the root of a non-square is rounded down to
SqrtGrid == 64

\* f64::sqrt: exact where the root is rational; an irrational root is
\* rounded down to a multiple of 1/SqrtGrid
f64_sqrt(a) ==
    IF is_nan(a) \/ a.n < 0 THEN NaN
    ELSE IF IsInf(a) THEN PInf
    ELSE IF Sq(ISqrt(a.n)) = a.n /\ Sq(ISqrt(a.d)) = a.d
         THEN R(ISqrt(a.n), ISqrt(a.d))
         ELSE R(ISqrt((a.n * SqrtGrid * SqrtGrid) \div a.d), SqrtGrid)

\* f64::floor
f64_floor(a) == IF IsFinite(a) THEN R(a.n \div a.d, 1) ELSE a

\* f64::min: the other operand when one is NaN
f64_min(a, b) ==
    IF is_nan(a) THEN b
    ELSE IF is_nan(b) THEN a
    ELSE IF FLt(b, a) THEN b ELSE a

(***************************************************************************)
(* Cylinders (cylinders.rs), Spheres (spheres.rs)                          *)
(***************************************************************************)
DEFAULT_CYLINDERS_FREQUENCY == R(1, 1)
DEFAULT_SPHERES_FREQUENCY == R(1, 1)

CylindersNew == [frequency |-> DEFAULT_CYLINDERS_FREQUENCY]

SpheresNew == [frequency |-> DEFAULT_SPHERES_FREQUENCY]

\* mutant: the distance to the smaller ring only
RingValue_Smaller(dist_from_centre) ==
    FSub(One, FMul(FSub(dist_from_centre, f64_floor(dist_from_centre)), R(4, 1)))

\* the value for a distance from the centre, as both get_value bodies
\* compute it
RingValue(dist_from_centre) ==
    LET dist_from_smaller_sphere ==
            FSub(dist_from_centre, f64_floor(dist_from_centre))
        dist_from_larger_sphere == FSub(One, dist_from_smaller_sphere)
        nearest_dist == f64_min(dist_from_smaller_sphere, dist_from_larger_sphere)
    IN  FSub(One, FMul(nearest_dist, R(4, 1)))

CylindersGetValue(c, x0, y0, z0) ==
    LET x == FMul(x0, c.frequency)
        z == FMul(z0, c.frequency)
    IN  RingValue(f64_sqrt(FAdd(FMul(x, x), FMul(z, z))))

SpheresGetValue(sp, x0, y0, z0) ==
    LET x == FMul(x0, sp.frequency)
        y == FMul(y0, sp.frequency)
        z == FMul(z0, sp.frequency)
    IN  RingValue(f64_sqrt(FAdd(FAdd(FMul(x, x), FMul(y, y)), FMul(z, z))))

CylindersSetFrequency(frequency) ==
    /\ kind = "Cylinders"
    /\ cylinders' = [cylinders EXCEPT !.frequency = frequency]
    /\ last' = [op |-> "set_frequency", status |-> "ok", args |-> <<frequency>>]
    /\ UNCHANGED NotCylinders

CylindersGet(x, y, z) ==
    /\ kind = "Cylinders"
    /\ last' = [op |-> "get_value", status |-> "ok", args |-> <<x, y, z>>,
                ret |-> CylindersGetValue(cylinders, x, y, z)]
    /\ UNCHANGED cylinders
    /\ UNCHANGED NotCylinders

SpheresSetFrequency(frequency) ==
    /\ kind = "Spheres"
    /\ spheres' = [spheres EXCEPT !.frequency = frequency]
    /\ last' = [op |-> "set_frequency", status |-> "ok", args |-> <<frequency>>]
    /\ UNCHANGED NotSpheres

SpheresGet(x, y, z) ==
    /\ kind = "Spheres"
    /\ last' = [op |-> "get_value", status |-> "ok", args |-> <<x, y, z>>,
                ret |-> SpheresGetValue(spheres, x, y, z)]
    /\ UNCHANGED spheres
    /\ UNCHANGED NotSpheres

(***************************************************************************)
(* Invert (invert.rs)                                                      *)
(***************************************************************************)
InvertNew(module) == [type |-> "Invert", module |-> module]

InvertSetModule(inv, module) == [inv EXCEPT !.module = module]

\* mutant: the negated magnitude of the source value
RECURSIVE InvertGetValue_NegAbs(_, _, _, _)
InvertGetValue_NegAbs(inv, x, y, z) ==
    LET value == IF inv.module.type = "Invert"
                 THEN InvertGetValue_NegAbs(inv.module, x, y, z)
                 ELSE ModuleGetValue(inv.module, x, y, z)
    IN  IF FLt(value, Zero) THEN value ELSE FNeg(value)

\* Invert::get_value; the source module is any Module, an Invert included
RECURSIVE InvertGetValue(_, _, _, _)
InvertGetValue(inv, x, y, z) ==
    LET value == IF inv.module.type = "Invert"
                 THEN InvertGetValue(inv.module, x, y, z)
                 ELSE ModuleGetValue(inv.module, x, y, z)
    IN  FNeg(value)

\* Invert::new(m) for a module m of the application
InvertCreate(module) ==
    /\ kind = "Invert"
    /\ invertmod' = InvertNew(module)
    /\ last' = [op |-> "new", status |-> "ok", args |-> <<module>>]
    /\ UNCHANGED NotInvert

\* Invert::new around the Invert built so far
InvertWrap ==
    /\ kind = "Invert"
    /\ invertmod.module.type # "Invert"
    /\ invertmod' = InvertNew(invertmod)
    /\ last' = [op |-> "new", status |-> "ok", args |-> <<invertmod>>]
    /\ UNCHANGED NotInvert

\* set_module takes a module of the type the Invert was built around
InvertModule(module) ==
    /\ kind = "Invert"
    /\ (module.type = "Invert") = (invertmod.module.type = "Invert")
    /\ invertmod' = InvertSetModule(invertmod, module)
    /\ last' = [op |-> "set_module", status |-> "ok", args |-> <<module>>]
    /\ UNCHANGED NotInvert

InvertGet(x, y, z) ==
    /\ kind = "Invert"
    /\ last' = [op |-> "get_value", status |-> "ok", args |-> <<x, y, z>>,
                ret |-> InvertGetValue(invertmod, x, y, z)]
    /\ UNCHANGED invertmod
    /\ UNCHANGED NotInvert

(***************************************************************************)
(* Noise primitives (noisegen): pseudo-random functions of the lattice     *)
(* coordinates and the seed with values in [-1, 1].  The program is linked *)
(* with one of them (noise); its values here are multiples of 1/2.         *)
(***************************************************************************)
FlatNoise == [a |-> 0, b |-> 0, c |-> 0, d |-> 0]

MixedNoise == [a |-> 1, b |-> 2, c |-> 3, d |-> 1]

NoiseFunctions == {FlatNoise, MixedNoise}

Hash(i, j, k, seed) ==
    (noise.a * (i % 5) + noise.b * (j % 5) + noise.c * (k % 5) + noise.d * (seed % 5)) % 5

value_noise3d(x, y, z, seed) == R(Hash(x, y, z, seed) - 2, 2)

QualityIndex(quality) ==
    CASE quality = "Fast" -> 0 [] quality = "Standard" -> 1 [] OTHER -> 2

IsWhole(a) == IsFinite(a) /\ a.d = 1

\* zero at the lattice points, where every gradient contributes nothing
gradient_coherent_noise3d(x, y, z, seed, quality) ==
    IF IsWhole(x) /\ IsWhole(y) /\ IsWhole(z) THEN Zero
    ELSE R(Hash(x.n + 3 * x.d, y.n + 3 * y.d, z.n + 3 * z.d + QualityIndex(quality),
                seed) - 2, 2)

\* a < b for finite operands, compared by their whole parts first (so that
\* 2147483647.0 can be an operand); FLt otherwise
Less(a, b) ==
    IF IsFinite(a) /\ IsFinite(b)
    THEN LET wa == a.n \div a.d
             wb == b.n \div b.d
         IN  \/ wa < wb
             \/ wa = wb /\ FLt(FSub(a, R(wa, 1)), FSub(b, R(wb, 1)))
    ELSE FLt(a, b)

I32_RANGE == 1073741824

\* the remainder of a finite value by a whole number, with the sign of the value
fmod(a, m) ==
    LET w == Sgn(a.n) * (Abs(a.n) \div a.d)
        r == Sgn(w) * (Abs(w) % m)
    IN  FAdd(R(r, 1), FSub(a, R(w, 1)))

\* folds a coordinate into the range of the lattice; the identity within it
make_i32_range(n) ==
    IF ~IsFinite(n) THEN NaN
    ELSE IF ~Less(n, R(I32_RANGE, 1))
    THEN FSub(FMul(Two, fmod(n, I32_RANGE)), R(I32_RANGE, 1))
    ELSE IF ~Less(R(-I32_RANGE, 1), n)
    THEN FAdd(FMul(Two, fmod(n, I32_RANGE)), R(I32_RANGE, 1))
    ELSE n

(***************************************************************************)
(* i32 arithmetic and casts                                                *)
(***************************************************************************)
\* i32 a - b for b >= 0, like AddI32
SubI32(a, b) ==
    IF a < MinI32 + b
    THEN [overflow |-> TRUE, value |-> MaxI32 - (((MinI32 + b) - a) - 1)]
    ELSE [overflow |-> FALSE, value |-> a - b]

\* `f as i32`: towards zero, saturating at the ends of the range, 0 for NaN
as_i32(f) ==
    IF is_nan(f) THEN 0
    ELSE IF IsInf(f) THEN (IF f.n > 0 THEN MaxI32 ELSE MinI32)
    ELSE Sgn(f.n) * (Abs(f.n) \div f.d)

(***************************************************************************)
(* Evaluation of Perlin, Billow and RidgedMulti.  An evaluation yields the *)
(* returned value, the calls of the gradient noise in order, and whether a *)
(* seed addition left the i32 range; built with overflow checks (checked)  *)
(* such an addition panics, without them it wraps.                         *)
(***************************************************************************)
NoiseCall(at, seed, quality) ==
    [seed |-> seed, at |-> at,
     ret |-> gradient_coherent_noise3d(at[1], at[2], at[3], seed, quality)]

Scale(at, f) == <<FMul(at[1], f), FMul(at[2], f), FMul(at[3], f)>>

Folded(at) == <<make_i32_range(at[1]), make_i32_range(at[2]), make_i32_range(at[3])>>

Panicked(acc) == [acc EXCEPT !.status = "panic", !.overflow = TRUE]

\* the loop of Perlin::get_value from octave cur_octave on
RECURSIVE PerlinLoop(_, _, _, _, _, _)
PerlinLoop(p, cur_octave, at, cur_persistence, acc, checked) ==
    IF cur_octave >= p.octave_count THEN acc
    ELSE LET seed == AddI32(p.seed, cur_octave)
             call == NoiseCall(Folded(at), seed.value, p.quality)
         IN  IF checked /\ seed.overflow THEN Panicked(acc)
             ELSE PerlinLoop(p, cur_octave + 1, Scale(at, p.lacunarity),
                      FMul(cur_persistence, p.persistence),
                      [acc EXCEPT !.value = FAdd(@, FMul(call.ret, cur_persistence)),
                                  !.calls = Append(@, call),
                                  !.overflow = @ \/ seed.overflow],
                      checked)

NoCalls == [status |-> "ok", value |-> Zero, calls |-> <<>>, overflow |-> FALSE]

PerlinGetValue(p, x, y, z, checked) ==
    PerlinLoop(p, 0, Scale(<<x, y, z>>, p.frequency), One, NoCalls, checked)

RECURSIVE BillowLoop(_, _, _, _, _, _)
BillowLoop(b, cur_octave, at, cur_persistence, acc, checked) ==
    IF cur_octave >= b.octave_count THEN acc
    ELSE LET seed == AddI32(b.seed, cur_octave)
             call == NoiseCall(Folded(at), seed.value, b.quality)
             signal == FSub(FMul(Two, FAbs(call.ret)), One)
         IN  IF checked /\ seed.overflow THEN Panicked(acc)
             ELSE BillowLoop(b, cur_octave + 1, Scale(at, b.lacunarity),
                      FMul(cur_persistence, b.persistence),
                      [acc EXCEPT !.value = FAdd(@, FMul(signal, cur_persistence)),
                                  !.calls = Append(@, call),
                                  !.overflow = @ \/ seed.overflow],
                      checked)

BillowGetValue(b, x, y, z, checked) ==
    LET acc == BillowLoop(b, 0, Scale(<<x, y, z>>, b.frequency), One, NoCalls, checked)
    IN  IF acc.status = "ok" THEN [acc EXCEPT !.value = FAdd(@, R(1, 2))] ELSE acc

\* v & 0x7fffffff
Mask31(v) == IF v < 0 THEN v - MinI32 ELSE v

\* the weight of the next octave, kept within [0, 1]
RidgedWeight(weight) ==
    IF FGt(weight, One) THEN One
    ELSE IF FLt(weight, Zero) THEN Zero
    ELSE weight

RIDGED_OFFSET == R(1, 1)
RIDGED_GAIN == R(2, 1)

\* the signal of one octave: the noise made a ridge, squared and weighted
RidgedSignal(noise_value, weight) ==
    LET ridge == FSub(RIDGED_OFFSET, FAbs(noise_value))
    IN  FMul(FMul(ridge, ridge), weight)

RECURSIVE RidgedLoop(_, _, _, _, _, _)
RidgedLoop(r, cur_octave, at, weight, acc, checked) ==
    IF cur_octave >= r.octave_count THEN acc
    ELSE LET seed == AddI32(r.seed, cur_octave)
             call == NoiseCall(Folded(at), Mask31(seed.value), r.quality)
             signal == RidgedSignal(call.ret, weight)
         IN  IF checked /\ seed.overflow THEN Panicked(acc)
             ELSE RidgedLoop(r, cur_octave + 1, Scale(at, r.lacunarity),
                      RidgedWeight(FMul(signal, RIDGED_GAIN)),
                      [acc EXCEPT !.value = FAdd(@, FMul(signal,
                                                At(r.spectral_weights, cur_octave))),
                                  !.calls = Append(@, call),
                                  !.overflow = @ \/ seed.overflow],
                      checked)

RidgedGetValue(r, x, y, z, checked) ==
    LET acc == RidgedLoop(r, 0, Scale(<<x, y, z>>, r.frequency), One, NoCalls, checked)
    IN  IF acc.status = "ok"
        THEN [acc EXCEPT !.value = FSub(FMul(@, R(5, 4)), One)]
        ELSE acc

Evaluated(r, x, y, z) ==
    [op |-> "get_value", status |-> r.status, args |-> <<x, y, z>>,
     ret |-> r.value, calls |-> r.calls, overflow |-> r.overflow]

PerlinLacunarity(lacunarity) ==
    /\ kind = "Perlin"
    /\ perlin' = [perlin EXCEPT !.lacunarity = lacunarity]
    /\ last' = [op |-> "set_lacunarity", status |-> "ok", args |-> <<lacunarity>>]
    /\ UNCHANGED NotPerlin

PerlinPersistence(persistence) ==
    /\ kind = "Perlin"
    /\ perlin' = [perlin EXCEPT !.persistence = persistence]
    /\ last' = [op |-> "set_persistence", status |-> "ok", args |-> <<persistence>>]
    /\ UNCHANGED NotPerlin

PerlinGet(x, y, z) ==
    /\ kind = "Perlin"
    /\ last' = Evaluated(PerlinGetValue(perlin, x, y, z, debug_assertions), x, y, z)
    /\ UNCHANGED perlin
    /\ UNCHANGED NotPerlin

BillowGet(x, y, z) ==
    /\ kind = "Billow"
    /\ last' = Evaluated(BillowGetValue(billow, x, y, z, debug_assertions), x, y, z)
    /\ UNCHANGED billow
    /\ UNCHANGED NotBillow

RidgedGet(x, y, z) ==
    /\ kind = "RidgedMulti"
    /\ last' = Evaluated(RidgedGetValue(ridged, x, y, z, debug_assertions), x, y, z)
    /\ UNCHANGED ridged
    /\ UNCHANGED NotRidged

(***************************************************************************)
(* Voronoi (voronoi.rs)                                                    *)
(***************************************************************************)
DEFAULT_VORONOI_DISPLACEMENT == R(1, 1)
DEFAULT_VORONOI_FREQUENCY == R(1, 1)
DEFAULT_VORONOI_SEED == 0

\* consts::SQRT_3, to three decimals
SQRT_3 == R(1732, 1000)

VoronoiNew ==
    [displacement |-> DEFAULT_VORONOI_DISPLACEMENT,
     enable_distance |-> FALSE,
     frequency |-> DEFAULT_VORONOI_FREQUENCY,
     seed |-> DEFAULT_VORONOI_SEED]

\* if x > 0.0 { x as i32 } else { (x - 1.0) as i32 }
CellIndex(x) == IF FGt(x, Zero) THEN as_i32(x) ELSE as_i32(FSub(x, One))

\* the value of F for a value that is computed once
Let(value, F(_)) == CHOOSE r \in {F(a) : a \in {value}} : TRUE

\* the seed point inside a cell
Offset(cell, offsets) ==
    <<FAdd(R(cell[1], 1), offsets[1]), FAdd(R(cell[2], 1), offsets[2]),
      FAdd(R(cell[3], 1), offsets[3])>>

\* the seed point of a cell: the cell moved by three noise values
SeedPoint(cell, seed, seed1, seed2) ==
    Let(<<value_noise3d(cell[1], cell[2], cell[3], seed),
          value_noise3d(cell[1], cell[2], cell[3], seed1),
          value_noise3d(cell[1], cell[2], cell[3], seed2)>>,
        LAMBDA offsets : Offset(cell, offsets))

Sum3(t) == Let(FAdd(t[1], t[2]), LAMBDA s : FAdd(s, t[3]))

SumOfSquares(d) == Let(<<FMul(d[1], d[1]), FMul(d[2], d[2]), FMul(d[3], d[3])>>, Sum3)

Dist2(pos, at) ==
    Let(<<FSub(pos[1], at[1]), FSub(pos[2], at[2]), FSub(pos[3], at[3])>>,
        SumOfSquares)

\* the body of the loops for one cell: acc is min_dist, the candidate and
\* the cells visited so far
Visit(cell, v, acc) ==
    Let(SeedPoint(cell, v.seed, v.seed1, v.seed2),
        LAMBDA pos :
            Let(Dist2(pos, v.at),
                LAMBDA dist :
                    IF Less(dist, acc.min_dist)
                    THEN [min_dist |-> dist, candidate |-> pos,
                          cells |-> Append(acc.cells, cell)]
                    ELSE [acc EXCEPT !.cells = Append(@, cell)]))

\* for x_cur in (x_int - 2)..(x_int + 3), from x_cur on; each iteration goes
\* on from the value the one before has left
RECURSIVE LoopX(_, _, _, _, _)
LoopX(x_cur, y_cur, z_cur, v, acc) ==
    IF x_cur >= v.his[1] THEN acc
    ELSE CHOOSE r \in {LoopX(x_cur + 1, y_cur, z_cur, v, next) :
                          next \in {Visit(<<x_cur, y_cur, z_cur>>, v, acc)}} : TRUE

\* for y_cur in (y_int - 2)..(y_int + 3), from y_cur on
RECURSIVE LoopY(_, _, _, _)
LoopY(y_cur, z_cur, v, acc) ==
    IF y_cur >= v.his[2] THEN acc
    ELSE CHOOSE r \in {LoopY(y_cur + 1, z_cur, v, next) :
                          next \in {LoopX(v.los[1], y_cur, z_cur, v, acc)}} : TRUE

\* for z_cur in (z_int - 2)..(z_int + 3), from z_cur on
RECURSIVE LoopZ(_, _, _)
LoopZ(z_cur, v, acc) ==
    IF z_cur >= v.his[3] THEN acc
    ELSE CHOOSE r \in {LoopZ(z_cur + 1, v, next) :
                          next \in {LoopY(v.los[2], z_cur, v, acc)}} : TRUE

\* the value returned once the loops have ended with best
VoronoiValue(v, at, best) ==
    LET value == IF v.enable_distance
                 THEN FSub(FMul(f64_sqrt(Dist2(best.candidate, at)), SQRT_3), One)
                 ELSE Zero
    IN  FAdd(value,
             FMul(v.displacement,
                  value_noise3d(as_i32(f64_floor(best.candidate[1])),
                                as_i32(f64_floor(best.candidate[2])),
                                as_i32(f64_floor(best.candidate[3])), 0)))

\* Voronoi::get_value built with (checked) or without overflow checks: the
\* returned value, the scaled coordinate, the cell located for it, the cells
\* examined and the candidate the loops ended with
VoronoiGetValue(v, x0, y0, z0, checked) ==
    LET at == <<FMul(x0, v.frequency), FMul(y0, v.frequency), FMul(z0, v.frequency)>>
        x_int == CellIndex(at[1])
        y_int == CellIndex(at[2])
        z_int == CellIndex(at[3])
        los == <<SubI32(x_int, 2), SubI32(y_int, 2), SubI32(z_int, 2)>>
        his == <<AddI32(x_int, 3), AddI32(y_int, 3), AddI32(z_int, 3)>>
        seed1 == AddI32(v.seed, 1)
        seed2 == AddI32(v.seed, 2)
        overflow == \/ \E i \in 1..3 : los[i].overflow \/ his[i].overflow
                    \/ seed1.overflow
                    \/ seed2.overflow
        loops == [at |-> at, seed |-> v.seed, seed1 |-> seed1.value,
                  seed2 |-> seed2.value,
                  los |-> <<los[1].value, los[2].value, los[3].value>>,
                  his |-> <<his[1].value, his[2].value, his[3].value>>]
        start == [min_dist |-> R(MaxI32, 1), candidate |-> <<Zero, Zero, Zero>>,
                  cells |-> <<>>]
    IN  IF checked /\ overflow
        THEN [status |-> "panic", ret |-> NaN, at |-> at,
              cell |-> <<x_int, y_int, z_int>>, cells |-> <<>>,
              candidate |-> <<Zero, Zero, Zero>>]
        ELSE CHOOSE r \in {[status |-> "ok", ret |-> VoronoiValue(v, at, best),
                            at |-> at, cell |-> <<x_int, y_int, z_int>>,
                            cells |-> best.cells, candidate |-> best.candidate] :
                              best \in {LoopZ(loops.los[3], w, start) : w \in {loops}}} :
                TRUE

VoronoiEnableDistance(enabled) ==
    /\ kind = "Voronoi"
    /\ voronoi' = [voronoi EXCEPT !.enable_distance = enabled]
    /\ last' = [op |-> "enable_distance", status |-> "ok", args |-> <<enabled>>]
    /\ UNCHANGED NotVoronoi

VoronoiSetDisplacement(displacement) ==
    /\ kind = "Voronoi"
    /\ voronoi' = [voronoi EXCEPT !.displacement = displacement]
    /\ last' = [op |-> "set_displacement", status |-> "ok",
                args |-> <<displacement>>]
    /\ UNCHANGED NotVoronoi

VoronoiSetFrequency(frequency) ==
    /\ kind = "Voronoi"
    /\ voronoi' = [voronoi EXCEPT !.frequency = frequency]
    /\ last' = [op |-> "set_frequency", status |-> "ok", args |-> <<frequency>>]
    /\ UNCHANGED NotVoronoi

VoronoiSetSeed(seed) ==
    /\ kind = "Voronoi"
    /\ voronoi' = [voronoi EXCEPT !.seed = seed]
    /\ last' = [op |-> "set_seed", status |-> "ok", args |-> <<seed>>]
    /\ UNCHANGED NotVoronoi

VoronoiGet(x, y, z) ==
    /\ kind = "Voronoi"
    /\ LET r == VoronoiGetValue(voronoi, x, y, z, debug_assertions)
       IN  last' = [op |-> "get_value", status |-> r.status, args |-> <<x, y, z>>,
                    ret |-> r.ret, at |-> r.at, cell |-> r.cell,
                    cells |-> r.cells, candidate |-> r.candidate]
    /\ UNCHANGED voronoi
    /\ UNCHANGED NotVoronoi

(***************************************************************************)
(* Specifications: the module under test is constructed, then called       *)
(***************************************************************************)
Kinds == {"Curve", "Terrace", "Select", "Clamp", "Displace", "Perlin", "Billow",
          "RidgedMulti", "RotatePoint", "Turbulence", "Cylinders", "Spheres",
          "Invert", "Voronoi"}

\* the state after constructing a module of one of the given kinds.  A
\* module of the kinds in evaluated is built with and without overflow
\* checks and linked with any of the given noise functions; of the others
\* only Turbulence does i32 arithmetic, and none calls the noise functions
InitBuilt(kinds, history, evaluated, noises) ==
    /\ kind \in kinds
    /\ debug_assertions \in (IF kind \in evaluated \cup {"Turbulence"}
                             THEN BOOLEAN ELSE {FALSE})
    /\ noise \in (IF kind \in evaluated THEN noises ELSE {FlatNoise})
    /\ keep_history = history
    /\ curve = CurveNew
    /\ terrace = TerraceNew
    /\ select = SelectNew
    /\ clampmod = ClampNew
    /\ displace = DisplaceNew
    /\ perlin = PerlinDefault
    /\ billow = BillowDefault
    /\ ridged = RidgedDefault
    /\ rotate = RotatePointNew
    /\ turb = TurbulenceNew
    /\ cylinders = CylindersNew
    /\ spheres = SpheresNew
    /\ invertmod = InvertNew(ConstantNew)
    /\ voronoi = VoronoiNew
    /\ last = [op |-> "new", status |-> "ok", args |-> <<>>]
    /\ memo = <<>>

InitWith(kinds, history) == InitBuilt(kinds, history, {}, {})

InitOf(kinds) == InitWith(kinds, FALSE)

NextCurve ==
    \/ \E i \in PointVals, o \in OutVals : CurveAdd(i, o)
    \/ CurveClear
    \/ \E s \in SourceVals : CurveGet(s)

NextTerrace ==
    \/ \E v \in PointVals : TerraceAdd(v)
    \/ \E c \in Counts : TerraceMake(c)
    \/ \E b \in BOOLEAN : TerraceSetInvert(b)
    \/ \E s \in SourceVals : TerraceGet(s)

NextSelect ==
    \/ \E f \in FalloffVals : SetEdgeFalloff(f)
    \/ \E l \in BoundVals, u \in BoundVals : SetBounds(l, u)
    \/ \E c \in ControlVals, v \in ModuleVals : SelectGet(c, v[1], v[2])

NextClamp ==
    \/ \E l \in ClampBoundVals, u \in ClampBoundVals : ClampBounds(l, u)
    \/ \E v \in ChildVals : ClampGet(v)

NextDisplace ==
    \/ \E m \in ChildModules : DisplaceSetModule(m)
    \/ \E m \in ChildModules : DisplaceSetX(m)
    \/ \E m \in ChildModules : DisplaceSetY(m)
    \/ \E m \in ChildModules : DisplaceSetZ(m)
    \/ \E x \in CoordVals, y \in CoordVals, z \in CoordVals : DisplaceGet(x, y, z)

NextFractal ==
    \/ \E n \in OctaveVals : PerlinOctaves(n)
    \/ \E n \in SeedVals : PerlinSeed(n)
    \/ \E f \in FrequencyVals : PerlinFrequency(f)
    \/ \E n \in OctaveVals : BillowOctaves(n)
    \/ \E n \in SeedVals : BillowSeed(n)
    \/ \E f \in FrequencyVals : BillowFrequency(f)
    \/ \E l \in LacunarityVals : RidgedLacunarity(l)
    \/ \E n \in OctaveVals : RidgedOctaves(n)
    \/ \E f \in FrequencyVals : RidgedFrequency(f)
    \/ \E q \in NoiseQuality : RidgedQuality(q)
    \/ \E n \in SeedVals : RidgedSeed(n)

NextRotate ==
    \/ \E x \in AngleVals, y \in AngleVals, z \in AngleVals : SetAngles(x, y, z)
    \/ \E x \in AngleVals : SetXAngle(x)
    \/ \E y \in AngleVals : SetYAngle(y)
    \/ \E z \in AngleVals : SetZAngle(z)

NextTurbulence ==
    \/ \E n \in SeedVals : SetSeed(n)
    \/ \E f \in FrequencyVals : SetFrequency(f)
    \/ \E p \in PowerVals : SetPower(p)
    \/ \E n \in OctaveVals : SetRoughness(n)

NextRings ==
    \/ \E f \in RingFrequencies : CylindersSetFrequency(f)
    \/ \E x \in RingCoords, y \in AxisCoords, z \in RingCoords : CylindersGet(x, y, z)
    \/ \E f \in RingFrequencies : SpheresSetFrequency(f)
    \/ \E x \in RingCoords, y \in RingCoords, z \in RingCoords : SpheresGet(x, y, z)

NextInvert ==
    \/ \E m \in InvertSources : InvertCreate(m)
    \/ InvertWrap
    \/ \E m \in InvertSources \cup {InvertNew(n) : n \in InvertSources} :
           InvertModule(m)
    \/ \E x \in CoordVals, y \in CoordVals, z \in CoordVals : InvertGet(x, y, z)

NextNoise ==
    \/ \E n \in EvalOctaves : PerlinOctaves(n)
    \/ \E n \in SeedVals : PerlinSeed(n)
    \/ \E f \in EvalFrequencies : PerlinFrequency(f)
    \/ \E l \in EvalLacunarities : PerlinLacunarity(l)
    \/ \E p \in EvalPersistences : PerlinPersistence(p)
    \/ \E x \in EvalCoords, y \in EvalCoords, z \in EvalCoords : PerlinGet(x, y, z)
    \/ \E n \in EvalOctaves : BillowOctaves(n)
    \/ \E n \in SeedVals : BillowSeed(n)
    \/ \E x \in EvalCoords, y \in EvalCoords, z \in EvalCoords : BillowGet(x, y, z)
    \/ \E n \in EvalOctaves : RidgedOctaves(n)
    \/ \E n \in SeedVals : RidgedSeed(n)
    \/ \E x \in EvalCoords, y \in EvalCoords, z \in EvalCoords : RidgedGet(x, y, z)

NextVoronoi ==
    \/ \E b \in BOOLEAN : VoronoiEnableDistance(b)
    \/ \E d \in VoronoiScales : VoronoiSetDisplacement(d)
    \/ \E f \in VoronoiScales : VoronoiSetFrequency(f)
    \/ \E n \in VoronoiSeeds : VoronoiSetSeed(n)
    \/ \E p \in VoronoiPoints : VoronoiGet(p[1], p[2], p[3])

Init ==
    InitBuilt(Kinds, FALSE, {"Perlin", "Billow", "RidgedMulti", "Voronoi"},
              NoiseFunctions)

Next ==
    \/ NextCurve
    \/ NextTerrace
    \/ NextSelect
    \/ NextClamp
    \/ NextDisplace
    \/ NextFractal
    \/ NextRotate
    \/ NextTurbulence
    \/ NextRings
    \/ NextInvert
    \/ NextNoise
    \/ NextVoronoi

Spec == Init /\ [][Next]_vars

\* one module kind (or one family of kinds) at a time
InitCurve == InitOf({"Curve"})
SpecCurve == InitCurve /\ [][NextCurve]_vars

InitTerrace == InitOf({"Terrace"})
SpecTerrace == InitTerrace /\ [][NextTerrace]_vars

InitRemap == InitOf({"Curve", "Terrace"})
NextRemap == NextCurve \/ NextTerrace
SpecRemap == InitRemap /\ [][NextRemap]_vars

InitSelect == InitOf({"Select"})
SpecSelect == InitSelect /\ [][NextSelect]_vars

InitClamp == InitOf({"Clamp"})
SpecClamp == InitClamp /\ [][NextClamp]_vars

InitBounds == InitOf({"Clamp", "Select"})
NextBounds == NextClamp \/ NextSelect
SpecBounds == InitBounds /\ [][NextBounds]_vars

InitDisplace == InitOf({"Displace"})
SpecDisplace == InitDisplace /\ [][NextDisplace]_vars

\* the modules whose get_value is modelled, with an earlier evaluation
\* remembered
InitEval == InitWith({"Terrace", "Clamp", "Displace"}, TRUE)

NextEval ==
    \/ \E v \in PointVals : TerraceAdd(v)
    \/ \E c \in Counts : TerraceMake(c)
    \/ \E b \in BOOLEAN : TerraceSetInvert(b)
    \/ \E s \in ProbeVals : TerraceGet(s)
    \/ \E l \in ClampBoundVals, u \in ClampBoundVals : ClampBounds(l, u)
    \/ \E v \in ProbeVals : ClampGet(v)
    \/ \E m \in ChildModules : DisplaceSetModule(m)
    \/ \E m \in ChildModules : DisplaceSetX(m)
    \/ \E m \in ChildModules : DisplaceSetY(m)
    \/ \E m \in ChildModules : DisplaceSetZ(m)
    \/ \E x \in ProbeCoords, y \in ProbeCoords : DisplaceGet(x, y, One)

SpecEval == InitEval /\ [][NextEval]_vars

InitFractal == InitOf({"Perlin", "Billow", "RidgedMulti"})
SpecFractal == InitFractal /\ [][NextFractal]_vars

InitRotate == InitOf({"RotatePoint"})
SpecRotate == InitRotate /\ [][NextRotate]_vars

InitTurbulence == InitOf({"Turbulence"})
SpecTurbulence == InitTurbulence /\ [][NextTurbulence]_vars

InitRings == InitOf({"Cylinders", "Spheres"})
SpecRings == InitRings /\ [][NextRings]_vars

InitInvert == InitOf({"Invert"})
SpecInvert == InitInvert /\ [][NextInvert]_vars

\* the fractal generators evaluated, built either way and with either noise
InitNoise ==
    InitBuilt({"Perlin", "Billow", "RidgedMulti"}, FALSE,
              {"Perlin", "Billow", "RidgedMulti"}, NoiseFunctions)
SpecNoise == InitNoise /\ [][NextNoise]_vars

InitVoronoi == InitBuilt({"Voronoi"}, FALSE, {"Voronoi"}, {MixedNoise})
SpecVoronoi == InitVoronoi /\ [][NextVoronoi]_vars

(***************************************************************************)
(* Properties                                                              *)
(***************************************************************************)
Ascending(keys) == \A i \in 1..(Len(keys) - 1) : FLt(keys[i], keys[i + 1])

\* C1: in every reachable state of a Curve (add_control_point, failing or
\* not, and clear_control_points), the control points are stored in strictly
\* ascending input_value order, so no two points share an input_value.
C1_CurveAscending == Ascending(CurveKeys(curve))

\* a point added after larger ones sits in front of them
C1_Witness ==
    /\ kind = "Curve"
    /\ Len(curve.control_points) >= 3
    /\ last.op = "add_control_point"
    /\ last.status = "ok"
    /\ curve.control_points[1].input_value = last.args[1]

\* C2: in every reachable state of a Terrace (any interleaving of
\* add_control_point and make_control_points, failing or not), the control
\* points are stored in strictly ascending order without a duplicate.
C2_TerraceAscending == Ascending(terrace.control_points)

\* a point added in front of the four points of make_control_points(4)
C2_Witness ==
    /\ kind = "Terrace"
    /\ last.op = "add_control_point"
    /\ last.status = "ok"
    /\ Len(terrace.control_points) = 5
    /\ terrace.control_points[1] = last.args[1]
    /\ Ideal(terrace.control_points[3]) = R(-1, 3)

HalfBound(sel) == FDiv(FSub(sel.upper_bound, sel.lower_bound), Two)

\* C3 as stated: in every reachable state of a Select, lower_bound <=
\* upper_bound and edge_falloff <= (upper_bound - lower_bound) / 2.
C3_BandsNeverOverlap ==
    /\ FLe(select.lower_bound, select.upper_bound)
    /\ FLe(select.edge_falloff, HalfBound(select))

\* C3 as amended: the same, in every reachable state whose stored bounds are
\* finite and whose stored edge_falloff is not NaN (which is every state
\* reached by calls with finite arguments only).
C3_BandsNeverOverlapFinite ==
    (/\ IsFinite(select.lower_bound)
     /\ IsFinite(select.upper_bound)
     /\ ~is_nan(select.edge_falloff)) => C3_BandsNeverOverlap

\* a requested falloff larger than half the range was clamped
C3_Witness ==
    /\ last.op = "set_edge_falloff"
    /\ IsFinite(last.args[1])
    /\ IsFinite(select.lower_bound)
    /\ IsFinite(select.upper_bound)
    /\ FLt(select.lower_bound, select.upper_bound)
    /\ FLt(select.edge_falloff, last.args[1])

OctaveCount ==
    CASE kind = "Perlin" -> perlin.octave_count
      [] kind = "Billow" -> billow.octave_count
      [] OTHER -> ridged.octave_count

C4_Step ==
    /\ OctaveCount' \in 1..30
    /\ last'.op = "set_octave_count" =>
         LET n == last'.args[1]
         IN  IF n < 1 \/ n > 30
             THEN last'.status = "panic" /\ OctaveCount' = OctaveCount
             ELSE last'.status = "ok" /\ OctaveCount' = n

\* C4: for Perlin, Billow and RidgedMulti octave_count is in [1, 30] in every
\* reachable state: set_octave_count(n) with n < 1 or n > 30 fails and leaves
\* octave_count unchanged, and with 1 <= n <= 30 it stores n.
C4_OctaveCountInRange == (OctaveCount \in 1..30) /\ [][C4_Step]_vars

\* a Billow that holds 30 octaves has rejected 31
C4_Witness ==
    /\ kind = "Billow"
    /\ last.op = "set_octave_count"
    /\ last.args[1] = 31
    /\ last.status = "panic"
    /\ billow.octave_count = 30

C5_Step ==
    /\ last'.op = "set_x_angle" =>
         /\ x_angle(rotate') = last'.args[1]
         /\ y_angle(rotate') = y_angle(rotate)
         /\ z_angle(rotate') = z_angle(rotate)
    /\ last'.op = "set_y_angle" =>
         /\ y_angle(rotate') = last'.args[1]
         /\ x_angle(rotate') = x_angle(rotate)
         /\ z_angle(rotate') = z_angle(rotate)
    /\ last'.op = "set_z_angle" =>
         /\ z_angle(rotate') = last'.args[1]
         /\ x_angle(rotate') = x_angle(rotate)
         /\ y_angle(rotate') = y_angle(rotate)

\* C5: for each axis a of a RotatePoint, after set_a_angle(v) the accessor
\* a_angle() returns v and the angles of the other two axes are as before.
C5_SetAngleSetsItsAxis == [][C5_Step]_vars

\* C6: in every reachable state of a RotatePoint the stored matrix is the
\* matrix update_matrix computes from the stored angles.
C6_MatrixNeverStale == rotate.matrix = update_matrix(rotate.angles)

\* a single-axis setter has stored a quarter turn and the matrix shows it
C6_Witness ==
    /\ last.op = "set_y_angle"
    /\ rotate.angles[1] = R(90, 1)
    /\ rotate.matrix[3][2] = One
    /\ rotate.matrix[2][2] = Zero

RECURSIVE Pow(_, _)
Pow(x, i) == IF i = 0 THEN One ELSE FMul(Pow(x, i - 1), x)

\* C7: in every reachable state of a RidgedMulti, spectral_weights[i] is
\* (lacunarity^i)^(-1) for every i in 0..29, and spectral_weights[0] is 1.
C7_SpectralWeights ==
    /\ Len(ridged.spectral_weights) = 30
    /\ At(ridged.spectral_weights, 0) = One
    /\ \A i \in 0..29 :
         At(ridged.spectral_weights, i) = FDiv(One, Pow(ridged.lacunarity, i))

\* the table of lacunarity 1/2 ends with 2^29
C7_Witness ==
    /\ last.op = "set_lacunarity"
    /\ ridged.lacunarity = R(1, 2)
    /\ At(ridged.spectral_weights, 29) = R(536870912, 1)

\* C8: in every reachable state of a Turbulence the three internal Perlin
\* generators have the same frequency and the same octave_count, and their
\* seeds are s, s+1 and s+2 (taken in i32) where s is what seed() returns.
C8_GeneratorsInStep ==
    /\ turb.y_distort.frequency = TurbFrequency(turb)
    /\ turb.z_distort.frequency = TurbFrequency(turb)
    /\ turb.y_distort.octave_count = TurbRoughness(turb)
    /\ turb.z_distort.octave_count = TurbRoughness(turb)
    /\ turb.y_distort.seed = AddI32(TurbSeed(turb), 1).value
    /\ turb.z_distort.seed = AddI32(TurbSeed(turb), 2).value

Points == IF kind = "Curve" THEN curve.control_points ELSE terrace.control_points

\* C9: for a non-NaN source value, Curve.get_value fails iff the curve holds
\* fewer than 4 control points and Terrace.get_value fails iff the terrace
\* holds fewer than 2; an evaluation that does not fail reads control points
\* at indices within [0, len-1] only.
C9_GetValueFailsIffTooFew ==
    (last.op = "get_value" /\ ~is_nan(last.args[1])) =>
        LET len == Len(Points)
            least == IF kind = "Curve" THEN 4 ELSE 2
        IN  /\ last.status = "panic" <=> len < least
            /\ last.status = "ok" =>
                 last.reads # {} /\ last.reads \subseteq 0..(len - 1)

\* a Curve evaluated between two inner points reads four distinct points
C9_Witness ==
    /\ kind = "Curve"
    /\ last.op = "get_value"
    /\ last.status = "ok"
    /\ Cardinality(last.reads) = 4

\* whether the control-point call recorded in l is one the code must reject
\* in the current state
MustReject(l) ==
    CASE kind = "Curve" /\ l.op = "add_control_point" ->
           \/ is_nan(l.args[1])
           \/ is_nan(l.args[2])
           \/ \E i \in 1..Len(curve.control_points) :
                FEq(curve.control_points[i].input_value, l.args[1])
      [] kind = "Terrace" /\ l.op = "add_control_point" ->
           \/ is_nan(l.args[1])
           \/ \E i \in 1..Len(terrace.control_points) :
                FEq(terrace.control_points[i], l.args[1])
      [] kind = "Terrace" /\ l.op = "make_control_points" -> l.args[1] < 2
      [] OTHER -> FALSE

\* C10: a rejected control-point operation (a duplicate or NaN
\* add_control_point, make_control_points with count < 2) fails and leaves
\* the stored control points exactly as they were.
C10_RejectedChangesNothing ==
    [][MustReject(last') =>
         /\ last'.status = "panic"
         /\ curve' = curve
         /\ terrace' = terrace]_vars

\* a duplicate input_value was rejected and the stored output_value differs
\* from the one offered
C10_Witness ==
    /\ kind = "Curve"
    /\ last.op = "add_control_point"
    /\ last.status = "panic"
    /\ ~is_nan(last.args[1])
    /\ ~is_nan(last.args[2])
    /\ \E i \in 1..Len(curve.control_points) :
         /\ curve.control_points[i].input_value = last.args[1]
         /\ curve.control_points[i].output_value # last.args[2]

\* the bounds a Clamp or a Select stores
Bounds == IF kind = "Clamp"
          THEN <<clampmod.lower_bound, clampmod.upper_bound>>
          ELSE <<select.lower_bound, select.upper_bound>>

C11_Step ==
    last'.op = "set_bounds" =>
        LET l == last'.args[1]
            u == last'.args[2]
        IN  /\ FGt(l, u) => /\ last'.status = "panic"
                            /\ clampmod' = clampmod
                            /\ select' = select
            /\ FLe(l, u) => /\ last'.status = "ok"
                            /\ Bounds' = <<l, u>>

\* C11: for Clamp and Select, set_bounds(l, u) with l > u fails and leaves
\* lower_bound and upper_bound (and, for Select, edge_falloff) unchanged; with
\* l <= u, including l == u, it succeeds and stores exactly l and u.
C11_SetBoundsChecksOrder == [][C11_Step]_vars

\* a Clamp has accepted equal bounds that differ from the ones it was built
\* with
C11_Witness ==
    /\ kind = "Clamp"
    /\ last.op = "set_bounds"
    /\ last.status = "ok"
    /\ last.args[1] = last.args[2]
    /\ IsFinite(last.args[1])
    /\ clampmod.lower_bound = last.args[1]
    /\ clampmod.upper_bound = last.args[1]

\* C12: for a Curve with at least 4 control points, a source value below the
\* smallest input_value returns exactly the output_value of the smallest
\* control point, and a source value above or equal to the largest
\* input_value returns exactly the output_value of the largest control point.
C12_CurveBoundary ==
    (kind = "Curve" /\ last.op = "get_value" /\ Len(curve.control_points) >= 4) =>
        LET lowest == curve.control_points[1]
            highest == curve.control_points[Len(curve.control_points)]
        IN  /\ FLt(last.args[1], lowest.input_value) =>
                  last.status = "ok" /\ last.ret = lowest.output_value
            /\ FLe(highest.input_value, last.args[1]) =>
                  last.status = "ok" /\ last.ret = highest.output_value

\* a finite source value above every point returned the output of the
\* largest one, which is not that of its neighbour
C12_Witness ==
    /\ kind = "Curve"
    /\ last.op = "get_value"
    /\ last.status = "ok"
    /\ Len(curve.control_points) = 4
    /\ IsFinite(last.args[1])
    /\ FLt(curve.control_points[4].input_value, last.args[1])
    /\ last.ret = curve.control_points[4].output_value
    /\ last.ret # curve.control_points[3].output_value

\* the smallest and the largest control point of the Terrace
Lowest == terrace.control_points[1]

Highest == terrace.control_points[Len(terrace.control_points)]

TerraceEvaluated ==
    kind = "Terrace" /\ last.op = "get_value" /\ Len(terrace.control_points) >= 2

\* a source value outside the control points returns the nearest of them
C13_Clamped ==
    /\ FLt(last.args[1], Lowest) => last.status = "ok" /\ last.ret = Lowest
    /\ FGt(last.args[1], Highest) => last.status = "ok" /\ last.ret = Highest

C13_InRange ==
    last.status = "ok" => FLe(Lowest, last.ret) /\ FLe(last.ret, Highest)

C14_MakeControlPoints ==
    (kind = "Terrace" /\ last.op = "make_control_points" /\ last.args[1] >= 2) =>
        LET count == last.args[1]
            points == terrace.control_points
        IN  /\ last.status = "ok"
            /\ Len(points) = count
            /\ points[1] = R(-1, 1)
            /\ points[count] = R(1, 1)
            /\ \A i \in 1..(count - 1) :
                 FSub(points[i + 1], points[i]) = R(2, count - 1)

ClampEvaluated ==
    kind = "Clamp" /\ last.op = "get_value" /\ ~is_nan(last.args[1])

C15_Cases ==
    ClampEvaluated =>
        LET value == last.args[1]
        IN  /\ FLt(value, clampmod.lower_bound) => last.ret = clampmod.lower_bound
            /\ FGt(value, clampmod.upper_bound) => last.ret = clampmod.upper_bound
            /\ (~FLt(value, clampmod.lower_bound) /\ ~FGt(value, clampmod.upper_bound))
                  => last.ret = value

C15_InRange ==
    ClampEvaluated =>
        /\ FLe(clampmod.lower_bound, last.ret)
        /\ FLe(last.ret, clampmod.upper_bound)

\* C15: Clamp.get_value, for a source value v that is not NaN, returns
\* lower_bound if v < lower_bound, upper_bound if v > upper_bound and v
\* otherwise, so the output always lies within [lower_bound, upper_bound].
C15_ClampGetValue == C15_Cases /\ C15_InRange

\* C15 as amended: the three cases hold for every non-NaN source value, and
\* the output lies within [lower_bound, upper_bound] when neither bound is
\* NaN.
C15_ClampGetValueBoundsNotNaN ==
    /\ C15_Cases
    /\ (~is_nan(clampmod.lower_bound) /\ ~is_nan(clampmod.upper_bound)) => C15_InRange

\* bounds (-1/2, 1/2) and a source value of 2: the output is 1/2
C15_Witness ==
    /\ ClampEvaluated
    /\ clampmod.lower_bound = R(-1, 2)
    /\ clampmod.upper_bound = R(1, 2)
    /\ last.args[1] = R(2, 1)
    /\ last.ret = R(1, 2)

SelectEvaluated == kind = "Select" /\ last.op = "get_value"

\* the output is module1's (module2's) value and only that module is read
IsModule1 == last.ret = last.args[2] /\ last.reads = {"module1"}
IsModule2 == last.ret = last.args[3] /\ last.reads = {"module2"}

C16_Step ==
    (SelectEvaluated /\ FEq(select.edge_falloff, Zero)) =>
        LET control == last.args[1]
            inside == /\ FLe(select.lower_bound, control)
                      /\ FLe(control, select.upper_bound)
        IN  IF inside THEN IsModule2 ELSE IsModule1

Midpoint(a, b) == FDiv(FAdd(a, b), Two)

C17_Step ==
    (SelectEvaluated /\ FGt(select.edge_falloff, Zero)) =>
        LET control == last.args[1]
        IN  /\ FEq(control, FSub(select.lower_bound, select.edge_falloff))
              => last.ret = last.args[2]
            /\ FEq(control, select.lower_bound)
              => last.ret = Midpoint(last.args[2], last.args[3])

IsBlend ==
    /\ last.reads = {"module1", "module2"}
    /\ \/ FLe(last.args[2], last.ret) /\ FLe(last.ret, last.args[3])
       \/ FLe(last.args[3], last.ret) /\ FLe(last.ret, last.args[2])

C18_Step ==
    (SelectEvaluated /\ FGt(select.edge_falloff, Zero)) =>
        LET control == last.args[1]
            lower == select.lower_bound
            upper == select.upper_bound
            f == select.edge_falloff
        IN  /\ (FLt(control, FSub(lower, f)) \/ FLe(FAdd(upper, f), control))
              => IsModule1
            /\ (FLe(FAdd(lower, f), control) /\ FLt(control, FSub(upper, f)))
              => IsModule2
            /\ (FLe(FSub(lower, f), control) /\ FLt(control, FAdd(lower, f)))
              => IsBlend
            /\ (FLe(FSub(upper, f), control) /\ FLt(control, FAdd(upper, f)))
              => IsBlend

C19_Step ==
    last'.op = "get_value" =>
        /\ Config' = Config
        /\ (memo # <<>> /\ memo[1].args = last'.args) =>
             (memo[1].status = last'.status /\ memo[1].ret = last'.ret)

DisplaceEvaluated == kind = "Displace" /\ last.op = "get_value"

\* the calls made on the displacement children
DisplacementCalls ==
    {i \in 1..Len(last.calls) : last.calls[i].child # "msource"}

\* C20: Displace.get_value(x, y, z) evaluates the three displacement children
\* at the original coordinate (x, y, z) and returns the source child's value
\* at (x + dx, y + dy, z + dz), where dx, dy, dz are the outputs of the x-,
\* y- and z-displacement children; no displacement child sees a displaced
\* coordinate.
C20_DisplaceOriginalCoordinate ==
    DisplaceEvaluated =>
        LET x == last.args[1]
            y == last.args[2]
            z == last.args[3]
            dx == ModuleGetValue(displace.mdisp_x, x, y, z)
            dy == ModuleGetValue(displace.mdisp_y, x, y, z)
            dz == ModuleGetValue(displace.mdisp_z, x, y, z)
            displaced == <<FAdd(x, dx), FAdd(y, dy), FAdd(z, dz)>>
        IN  /\ {last.calls[i].child : i \in DisplacementCalls}
                 = {"mdisp_x", "mdisp_y", "mdisp_z"}
            /\ \A i \in DisplacementCalls : last.calls[i].at = <<x, y, z>>
            /\ \E i \in 1..Len(last.calls) :
                 /\ last.calls[i].child = "msource"
                 /\ last.calls[i].at = displaced
            /\ last.ret = ModuleGetValue(displace.msource, displaced[1],
                                         displaced[2], displaced[3])

\* every child depends on the coordinate and the x displacement is not zero,
\* so a displacement child given a displaced coordinate would answer
\* differently
C20_Witness ==
    /\ DisplaceEvaluated
    /\ displace.msource.type = "Weighted"
    /\ displace.mdisp_x.type = "AxisX"
    /\ displace.mdisp_y.type = "Weighted"
    /\ displace.mdisp_z.type = "AxisX"
    /\ last.args = <<One, One, Zero>>
    /\ last.ret = R(14, 1)

(***************************************************************************)
(* Cylinders and Spheres                                                   *)
(***************************************************************************)
RingEvaluated == last.op = "get_value" /\ kind \in {"Cylinders", "Spheres"}

\* the distance of the evaluated coordinate, scaled by the frequency, from
\* the axis of the cylinders or the centre of the spheres
ScaledRadius ==
    LET f == IF kind = "Cylinders" THEN cylinders.frequency ELSE spheres.frequency
        x == FMul(last.args[1], f)
        y == IF kind = "Cylinders" THEN Zero ELSE FMul(last.args[2], f)
        z == FMul(last.args[3], f)
    IN  f64_sqrt(FAdd(FAdd(FMul(x, x), FMul(y, y)), FMul(z, z)))

RingDistance(r, k) == FAbs(FSub(r, R(k, 1)))

\* the returned value is 1 - 4 * (distance to a nearest ring) and in [-3, 1]
RingOutput ==
    /\ \E k \in Radii :
          /\ \A j \in Radii : FLe(RingDistance(ScaledRadius, k),
                                  RingDistance(ScaledRadius, j))
          /\ FEq(last.ret, FSub(One, FMul(R(4, 1), RingDistance(ScaledRadius, k))))
    /\ FLe(R(-3, 1), last.ret)
    /\ FLe(last.ret, One)

InvertEvaluated == last.op = "get_value" /\ kind = "Invert"

\* an Invert whose source module is an Invert
IsDoubleInvert == invertmod.module.type = "Invert"

\* C22: Invert(Invert(M)).get_value(p) is the value M.get_value(p), for every
\* source module M and coordinate p (a NaN of M comes back as that NaN)
C22_DoubleInvert ==
    (InvertEvaluated /\ IsDoubleInvert) =>
        last.ret = ModuleGetValue(invertmod.module.module,
                                  last.args[1], last.args[2], last.args[3])

\* a doubly inverted module that returns the x coordinate, evaluated at x = 1
C22_Witness ==
    /\ InvertEvaluated
    /\ IsDoubleInvert
    /\ invertmod.module.module.type = "AxisX"
    /\ last.args[1] = One
    /\ last.ret = One

(***************************************************************************)
(* Perlin, Billow and RidgedMulti evaluated                                *)
(***************************************************************************)
NoiseEvaluated ==
    last.op = "get_value" /\ kind \in {"Perlin", "Billow", "RidgedMulti"}

\* the generator under test
Generator ==
    CASE kind = "Perlin" -> perlin
      [] kind = "Billow" -> billow
      [] OTHER -> ridged

\* C23: an evaluation of Perlin, Billow or RidgedMulti with any i32 seed and
\* an octave count in [1, 30] returns, every seed + octave having been
\* computed within the i32 range (for RidgedMulti before the masking)
C23_SeedInRange ==
    (NoiseEvaluated /\ Generator.octave_count \in 1..PERLIN_MAX_OCTAVE) =>
        (last.status = "ok" /\ ~last.overflow)

PerlinEvaluated == last.op = "get_value" /\ kind = "Perlin"

\* the sum of the noise values of the calls from the i-th on (0-based), the
\* i-th weighted by persistence^i
RECURSIVE WeightedSum(_, _, _)
WeightedSum(calls, persistence, i) ==
    IF i >= Len(calls) THEN Zero
    ELSE FAdd(FMul(At(calls, i).ret, Pow(persistence, i)),
              WeightedSum(calls, persistence, i + 1))

\* the i-th call (0-based) is made with seed + i at the coordinate scaled by
\* frequency * lacunarity^i
IsOctave(call, i) ==
    /\ call.seed >= perlin.seed
    /\ call.seed - perlin.seed = i
    /\ call.at = Scale(last.args, FMul(perlin.frequency, Pow(perlin.lacunarity, i)))
    /\ call.ret = gradient_coherent_noise3d(call.at[1], call.at[2], call.at[3],
                                            call.seed, perlin.quality)

OctavesSummed ==
    /\ last.status = "ok"
    /\ Len(last.calls) = perlin.octave_count
    /\ \A i \in 0..(perlin.octave_count - 1) : IsOctave(At(last.calls, i), i)
    /\ last.ret = WeightedSum(last.calls, perlin.persistence, 0)

\* C26: Perlin.get_value calls the gradient noise exactly octave_count
\* times, octave i with seed + i at the coordinate scaled by
\* frequency * lacunarity^i, and returns the sum of noise_i * persistence^i
C26_PerlinOctaves == PerlinEvaluated => OctavesSummed

\* the same for the seeds whose octave seeds are all i32 values
PerlinOctavesInRange ==
    (PerlinEvaluated /\ perlin.seed <= MaxI32 - (perlin.octave_count - 1)) =>
        OctavesSummed

\* octaves summed to a value that is not that of the first octave, the
\* last of them with the largest i32 as its seed
PerlinSeveralOctaves ==
    /\ PerlinEvaluated
    /\ last.status = "ok"
    /\ Len(last.calls) = 2
    /\ last.calls[2].seed = MaxI32
    /\ last.ret # last.calls[1].ret

RidgedEvaluated == last.op = "get_value" /\ kind = "RidgedMulti"

\* C27: with one octave the value of RidgedMulti lies in [-1.0, 0.0],
\* whatever value in [-1, 1] the gradient noise returns
C27_OneOctaveRange ==
    (RidgedEvaluated /\ ridged.octave_count = 1) =>
        /\ last.status = "ok"
        /\ FLe(R(-1, 1), last.ret)
        /\ FLe(last.ret, Zero)

\* the range the code has with one octave: [-1.0, 0.25]
RidgedOneOctaveRange ==
    (RidgedEvaluated /\ ridged.octave_count = 1) =>
        /\ last.status = "ok"
        /\ FLe(R(-1, 1), last.ret)
        /\ FLe(last.ret, R(1, 4))

(***************************************************************************)
(* Voronoi                                                                 *)
(***************************************************************************)
VoronoiEvaluated == last.op = "get_value" /\ kind = "Voronoi"

\* C24: the cell index Voronoi computes for a scaled coordinate v is that of
\* the lattice cell containing v, index <= v < index + 1, for v = 0 and for
\* negative whole v too
C24_CellContains ==
    VoronoiEvaluated =>
        \A i \in 1..3 :
            IsFinite(last.at[i]) =>
                /\ ~Less(last.at[i], R(last.cell[i], 1))
                /\ Less(last.at[i], R(last.cell[i] + 1, 1))

\* the cells at the offsets -2..+2 from the located one
Neighbourhood ==
    {<<last.cell[1] + dx, last.cell[2] + dy, last.cell[3] + dz>> :
        dx \in (-2)..2, dy \in (-2)..2, dz \in (-2)..2}

\* cell a is visited before cell b: z outermost, then y, then x
VisitedBefore(a, b) ==
    \/ a[3] < b[3]
    \/ a[3] = b[3] /\ a[2] < b[2]
    \/ a[3] = b[3] /\ a[2] = b[2] /\ a[1] < b[1]

\* the seed point of a cell and its squared distance from the scaled
\* coordinate, for the seeds an evaluation that returned has used
SeedOf(cell) ==
    SeedPoint(cell, voronoi.seed, AddI32(voronoi.seed, 1).value,
              AddI32(voronoi.seed, 2).value)

SeedDistance(cell) == Dist2(SeedOf(cell), last.at)

\* the search of the evaluation: the 125 cells in visiting order, and a
\* candidate that is the seed point of the first of the nearest cells
SearchedNeighbourhood ==
    /\ last.status = "ok"
    /\ Len(last.cells) = 125
    /\ {last.cells[i] : i \in 1..Len(last.cells)} = Neighbourhood
    /\ \A i \in 1..(Len(last.cells) - 1) :
          VisitedBefore(last.cells[i], last.cells[i + 1])
    /\ \E c \in Neighbourhood :
          /\ last.candidate = SeedOf(c)
          /\ \A o \in Neighbourhood :
                /\ ~Less(SeedDistance(o), SeedDistance(c))
                /\ VisitedBefore(o, c) => Less(SeedDistance(c), SeedDistance(o))

\* C25: an evaluation of Voronoi examines exactly the 125 cells at offsets
\* -2..+2 around the located cell, and its final candidate is the seed point
\* of one of them at the least squared distance, the first visited of those
\* (z outermost, then y, then x)
C25_Search == VoronoiEvaluated => SearchedNeighbourhood

\* the same for finite coordinates and seeds below i32::MAX - 1
VoronoiSearchInRange ==
    (/\ VoronoiEvaluated
     /\ \A i \in 1..3 : IsFinite(last.args[i])
     /\ voronoi.seed < MaxI32 - 1) => SearchedNeighbourhood

\* a tie that the first visited cell wins
VoronoiTie ==
    /\ VoronoiEvaluated
    /\ last.status = "ok"
    /\ \E c \in Neighbourhood, o \in Neighbourhood :
          /\ last.candidate = SeedOf(c)
          /\ SeedOf(o) # SeedOf(c)
          /\ SeedDistance(o) = SeedDistance(c)

(***************************************************************************)
(* Curve and Terrace at and between their control points                   *)
(***************************************************************************)
CurveEvaluated ==
    kind = "Curve" /\ last.op = "get_value" /\ Len(curve.control_points) >= 4

\* the control points the interpolation at the i-th one (1-based) uses: the
\* one before it, itself and the two after it, as far as they exist
Around(i) ==
    {clamp(j, 1, Len(curve.control_points)) : j \in (i - 1)..(i + 2)}

\* the evaluation returned the output value of the i-th control point
ReturnedOutput(i) ==
    last.status = "ok" /\ last.ret = curve.control_points[i].output_value

InInterval(i) ==
    /\ FLe(terrace.control_points[i], last.args[1])
    /\ FLt(last.args[1], terrace.control_points[i + 1])

\* the output lies within [v_i, v_(i+1)] and is v_i when s = v_i
Bracketed(i) ==
    /\ last.status = "ok"
    /\ FLe(terrace.control_points[i], last.ret)
    /\ FLe(last.ret, terrace.control_points[i + 1])
    /\ FEq(last.args[1], terrace.control_points[i]) =>
           last.ret = terrace.control_points[i]

NextSetters ==
    \/ \E f \in FalloffVals : SetEdgeFalloff(f)
    \/ \E l \in BoundVals, u \in BoundVals : SetBounds(l, u)

SpecSetters == InitSelect /\ [][NextSetters]_vars

\* the step was set_edge_falloff(f)
FalloffSet == kind = "Select" /\ last'.op = "set_edge_falloff"

\* the call stored the smaller of f and half the bound size
FalloffIsMin ==
    /\ last'.status = "ok"
    /\ select'.edge_falloff = f64_min(last'.args[1], HalfBound(select))

\* a successful set_bounds does not increase the stored falloff
BoundsKeepFalloff ==
    (kind = "Select" /\ last'.op = "set_bounds" /\ last'.status = "ok") =>
        ~FGt(select'.edge_falloff, select.edge_falloff)

\* C30 as stated: Select.set_edge_falloff(f) leaves edge_falloff equal to
\* min(f, (upper_bound - lower_bound)/2), and no successful set_bounds ever
\* increases edge_falloff
C30_FalloffClamped ==
    [][(FalloffSet => FalloffIsMin) /\ BoundsKeepFalloff]_vars

\* C30 amended: set_edge_falloff(f) with f not NaN leaves edge_falloff equal
\* to min(f, (upper_bound - lower_bound)/2), and no successful set_bounds ever
\* increases edge_falloff
C30_FalloffClampedNotNaN ==
    [][/\ (FalloffSet /\ ~is_nan(last'.args[1])) => FalloffIsMin
       /\ BoundsKeepFalloff]_vars

\* a successful set_bounds with finite bounds has lowered the falloff of a
\* Select to half the bound size, below the default
C30_Witness ==
    /\ kind = "Select"
    /\ last.op = "set_bounds"
    /\ last.status = "ok"
    /\ IsFinite(select.lower_bound)
    /\ IsFinite(select.upper_bound)
    /\ FLt(select.lower_bound, select.upper_bound)
    /\ select.edge_falloff = HalfBound(select)
    /\ select.lower_bound # DEFAULT_SELECT_LOWER_BOUND

====
